---- MODULE Spec2Model ----
(***************************************************************************)
(* datadog-ecs-cdk: addDatadogToFargateTask (fargate.ts), and below it the *)
(* constructors of DatadogEcsDaemonService (ec2.ts) and of the private     *)
(* synthetics services.                                                    *)
(*                                                                         *)
(* The function takes an ECS task definition and a props tree, snapshots   *)
(* the names of the task's containers, adds the datadog-agent container,   *)
(* writes APM / StatsD variables into the snapshotted containers, adds the *)
(* firelens log router and binds the firelens log driver to the            *)
(* snapshotted containers.  The model steps through these blocks in the    *)
(* order of the source; pc is the position inside the call.                *)
(*                                                                         *)
(* An optional TypeScript value (x?: T) is <<>> when it is undefined and   *)
(* <<v>> when it holds v.  A string-keyed object (environment, options,    *)
(* secrets) is a function from its keys to its values; {} is <<>>.  A      *)
(* Record<string, string> of tags is the sequence of its [key, value]      *)
(* entries in Object.entries order.                                        *)
(***************************************************************************)
EXTENDS Integers, Sequences, FiniteSets, TLC

VARIABLES
    task,            \* task.containers: the sequence of container definitions
    pc,              \* position inside addDatadogToFargateTask
    props,           \* the props argument of the running call
    containerNames,  \* the snapshot of container names taken at entry
    error,           \* the error thrown out of the call, if any
    pre,             \* task.containers as it was at entry of the call
    history,         \* the calls that have ended: their props and their error
    construct        \* the construct a constructor of ec2.ts / synthetics is building

vars == <<task, pc, props, containerNames, error, pre, history, construct>>

-----------------------------------------------------------------------------
(* Optional values, ?? and JavaScript truthiness *)

None == <<>>

Some(v) == <<v>>

IsSome(o) == o /= <<>>

\* o ?? d
Coalesce(o, d) == IF o = <<>> THEN d ELSE o[1]

\* truthiness of an optional boolean, number, string, object
TruthyBool(o) == o /= <<>> /\ o[1] = TRUE

TruthyNum(o) == o /= <<>> /\ o[1] /= 0

TruthyStr(o) == o /= <<>> /\ o[1] /= ""

TruthyObj(o) == o /= <<>>

\* {...base, key: value}: a later key overwrites an earlier one
Put(base, key, value) == (key :> value) @@ base

\* {...base, ...more}
Spread(base, more) == more @@ base

-----------------------------------------------------------------------------
(* Optional chaining into the props tree *)

agentOf(p) == p.agent

\* faulty variant: enabled read as `?? true`
agentEnabledDefaultsOn(p) ==
    IF p.agent = None THEN None ELSE Some(Coalesce(p.agent[1].enabled, TRUE))

agentEnabled(p) == IF p.agent = None THEN None ELSE p.agent[1].enabled

agentImageProp(p) == IF p.agent = None THEN None ELSE p.agent[1].image

agentImageTag(p) == IF p.agent = None THEN None ELSE p.agent[1].imageTag

agentMemoryLimitMiB(p) == IF p.agent = None THEN None ELSE p.agent[1].memoryLimitMiB

agentCpu(p) == IF p.agent = None THEN None ELSE p.agent[1].cpu

agentLogToCloudWatch(p) == IF p.agent = None THEN None ELSE p.agent[1].logToCloudWatch

agentTags(p) == IF p.agent = None THEN None ELSE p.agent[1].tags

apmOf(p) == IF p.agent = None THEN None ELSE p.agent[1].apm

apmEnabled(p) == IF apmOf(p) = None THEN None ELSE apmOf(p)[1].enabled

apmPort(p) == IF apmOf(p) = None THEN None ELSE apmOf(p)[1].port

apmEnvVars(p) == IF apmOf(p) = None THEN None ELSE apmOf(p)[1].applicationEnvVars

apmDoNotSet(p) == IF apmEnvVars(p) = None THEN None ELSE apmEnvVars(p)[1].doNotSet

apmHostEnvVarName(p) == IF apmEnvVars(p) = None THEN None ELSE apmEnvVars(p)[1].apmHostEnvVarName

apmPortEnvVarName(p) == IF apmEnvVars(p) = None THEN None ELSE apmEnvVars(p)[1].apmPortEnvVarName

apmTraceEnabledEnvVarName(p) ==
    IF apmEnvVars(p) = None THEN None ELSE apmEnvVars(p)[1].apmTraceEnabledEnvVarName

statsdOf(p) == IF p.agent = None THEN None ELSE p.agent[1].statsd

\* faulty variant: a missing statsd object counts as enabled
statsdEnabledAbsentOn(p) == IF statsdOf(p) = None THEN Some(TRUE) ELSE statsdOf(p)[1].enabled

statsdEnabled(p) == IF statsdOf(p) = None THEN None ELSE statsdOf(p)[1].enabled

statsdPort(p) == IF statsdOf(p) = None THEN None ELSE statsdOf(p)[1].port

statsdEnvVars(p) == IF statsdOf(p) = None THEN None ELSE statsdOf(p)[1].applicationEnvVars

statsdDoNotSet(p) == IF statsdEnvVars(p) = None THEN None ELSE statsdEnvVars(p)[1].doNotSet

statsdHostEnvVarName(p) ==
    IF statsdEnvVars(p) = None THEN None ELSE statsdEnvVars(p)[1].statsdHostEnvVarName

statsdPortEnvVarName(p) ==
    IF statsdEnvVars(p) = None THEN None ELSE statsdEnvVars(p)[1].statsdPortEnvVarName

fireLensEnabled(p) == IF p.fireLensLogging = None THEN None ELSE p.fireLensLogging[1].enabled

fireLensService(p) == IF p.fireLensLogging = None THEN None ELSE p.fireLensLogging[1].service

fireLensSource(p) == IF p.fireLensLogging = None THEN None ELSE p.fireLensLogging[1].source

fireLensTags(p) == IF p.fireLensLogging = None THEN None ELSE p.fireLensLogging[1].tags

fireLensMemoryLimitMiB(p) ==
    IF p.fireLensLogging = None THEN None ELSE p.fireLensLogging[1].memoryLimitMiB

fireLensCpu(p) == IF p.fireLensLogging = None THEN None ELSE p.fireLensLogging[1].cpu

fireLensImageProp(p) == IF p.fireLensLogging = None THEN None ELSE p.fireLensLogging[1].image

fireLensImageTag(p) == IF p.fireLensLogging = None THEN None ELSE p.fireLensLogging[1].imageTag

-----------------------------------------------------------------------------
(* Program constants *)

\* memoryLimitMiB: props.agent?.memoryLimitMiB ?? 256 (and the log router's)
DefaultMemoryLimitMiB == 256

AgentContainerName == "datadog-agent"

LogRouterName == "log_router"

DefaultSite == "datadoghq.com"

AgentRepository == "public.ecr.aws/datadog/agent:"

FluentBitRepository == "public.ecr.aws/aws-observability/aws-for-fluent-bit:"

-----------------------------------------------------------------------------
(* Pure helpers of fargate.ts *)

RECURSIVE join(_, _)
\* Array.prototype.join
join(parts, sep) ==
    IF parts = <<>> THEN ""
    ELSE IF Len(parts) = 1 THEN parts[1]
    ELSE parts[1] \o sep \o join(Tail(parts), sep)

\* faulty variant: the separator is always a comma
formatTagsComma(tags, sep) ==
    join([i \in 1..Len(tags) |-> tags[i][1] \o ":" \o tags[i][2]], ",")

\* formatTags: `${key}:${value}` for each entry, joined by sep
formatTags(tags, sep) ==
    join([i \in 1..Len(tags) |-> tags[i][1] \o ":" \o tags[i][2]], sep)

\* faulty variant: String(port || dflt)
portStringOr(port, dflt) == IF TruthyNum(port) THEN ToString(port[1]) ELSE dflt

\* String(port ?? dflt), dflt being a string literal in the source
portString(port, dflt) == IF port = None THEN dflt ELSE ToString(port[1])

\* ecs.ContainerImage.fromRegistry(name)
fromRegistry(name) == [registry |-> name]

\* ecs.LogDrivers.awsLogs({streamPrefix}) as bound to a container
awsLogs(streamPrefix) ==
    [logDriver |-> "awslogs",
     options |-> ("awslogs-stream-prefix" :> streamPrefix),
     secretOptions |-> <<>>]

\* faulty variant: a supplied imageTag wins over a supplied image
agentImageTagFirst(p) ==
    IF IsSome(agentImageTag(p)) THEN fromRegistry(AgentRepository \o agentImageTag(p)[1])
    ELSE Coalesce(agentImageProp(p), fromRegistry(AgentRepository \o "latest"))

\* image: props.agent?.image ?? fromRegistry(`public.ecr.aws/datadog/agent:${imageTag ?? 'latest'}`)
agentImage(p) ==
    Coalesce(agentImageProp(p),
             fromRegistry(AgentRepository \o Coalesce(agentImageTag(p), "latest")))

\* ...(props.agent?.cpu ? { cpu: props.fireLensLogging?.cpu } : {})
agentCpuOption(p) == IF TruthyNum(agentCpu(p)) THEN fireLensCpu(p) ELSE None

\* faulty variant: nothing is set when APM is off
agentApmEnvironmentOnlyWhenOn(p) ==
    IF TruthyBool(apmEnabled(p))
    THEN ("DD_APM_ENABLED" :> "true")
         @@ ("DD_APM_RECEIVER_PORT" :> portString(apmPort(p), "8126"))
    ELSE <<>>

\* the APM pair of the agent's environment
agentApmEnvironment(p) ==
    IF TruthyBool(apmEnabled(p))
    THEN ("DD_APM_ENABLED" :> "true")
         @@ ("DD_APM_RECEIVER_PORT" :> portString(apmPort(p), "8126"))
    ELSE ("DD_APM_ENABLED" :> "false")

\* the StatsD pair of the agent's environment
agentStatsdEnvironment(p) ==
    IF TruthyBool(statsdEnabled(p))
    THEN ("DD_USE_DOGSTATSD" :> "true")
         @@ ("DD_DOGSTATSD_PORT" :> portString(statsdPort(p), "8125"))
    ELSE ("DD_USE_DOGSTATSD" :> "false")

\* faulty variant: DD_TAGS is set only for a mapping that has entries
agentTagsEnvironmentWhenNonEmpty(p) ==
    IF TruthyObj(agentTags(p)) /\ Len(agentTags(p)[1]) > 0
    THEN ("DD_TAGS" :> formatTags(agentTags(p)[1], " "))
    ELSE <<>>

\* ...(props.agent?.tags ? { DD_TAGS: formatTags(props.agent?.tags, ' ') } : {})
agentTagsEnvironment(p) ==
    IF TruthyObj(agentTags(p))
    THEN ("DD_TAGS" :> formatTags(agentTags(p)[1], " "))
    ELSE <<>>

\* environment: { ECS_FARGATE, DD_SITE, ...apm, ...statsd, ...tags }
agentEnvironment(p) ==
    Spread(Spread(Spread(("ECS_FARGATE" :> "true")
                         @@ ("DD_SITE" :> Coalesce(p.datadogSite, DefaultSite)),
                         agentApmEnvironment(p)),
                  agentStatsdEnvironment(p)),
           agentTagsEnvironment(p))

\* the ContainerDefinition that task.addContainer('datadog-agent', {...}) creates
agentContainer(p) ==
    [containerName |-> AgentContainerName,
     image |-> agentImage(p),
     memoryLimitMiB |-> Some(Coalesce(agentMemoryLimitMiB(p), DefaultMemoryLimitMiB)),
     cpu |-> agentCpuOption(p),
     logDriverConfig |->
         IF TruthyBool(agentLogToCloudWatch(p)) THEN Some(awsLogs("datadog-agent")) ELSE None,
     environment |-> agentEnvironment(p),
     secrets |-> ("DD_API_KEY" :> p.datadogApiKeySecret),
     firelensConfig |-> None]

\* image of the log router
fireLensImage(p) ==
    Coalesce(fireLensImageProp(p),
             fromRegistry(FluentBitRepository \o Coalesce(fireLensImageTag(p), "latest")))

\* ...(props.fireLensLogging?.cpu ? { cpu: props.fireLensLogging?.cpu } : {})
fireLensCpuOption(p) == IF TruthyNum(fireLensCpu(p)) THEN fireLensCpu(p) ELSE None

\* the FirelensLogRouter that task.addFirelensLogRouter('log_router', {...}) creates
logRouterContainer(p) ==
    [containerName |-> LogRouterName,
     image |-> fireLensImage(p),
     memoryLimitMiB |-> Some(Coalesce(fireLensMemoryLimitMiB(p), DefaultMemoryLimitMiB)),
     cpu |-> fireLensCpuOption(p),
     logDriverConfig |-> None,
     environment |-> <<>>,
     secrets |-> <<>>,
     firelensConfig |-> Some([type |-> "fluentbit", enableECSLogMetadata |-> TRUE])]

\* faulty variant: the intake host of the default site, whatever the site
intakeHostDefaultSite(p) == "http-intake.logs." \o DefaultSite

\* `http-intake.logs.${props.datadogSite ?? 'datadoghq.com'}`
intakeHost(p) == "http-intake.logs." \o Coalesce(p.datadogSite, DefaultSite)

\* faulty variant: dd_service and dd_source take each other's value
firelensOptionsSwapped(p) ==
    Spread(Spread(Spread(("Name" :> "datadog")
                         @@ ("Host" :> "http-intake.logs." \o Coalesce(p.datadogSite, DefaultSite))
                         @@ ("TLS" :> "on")
                         @@ ("provider" :> "ecs")
                         @@ ("dd_message_key" :> "log"),
                         IF TruthyStr(fireLensService(p))
                         THEN ("dd_source" :> fireLensService(p)[1]) ELSE <<>>),
                  IF TruthyStr(fireLensSource(p))
                  THEN ("dd_service" :> fireLensSource(p)[1]) ELSE <<>>),
           IF TruthyObj(fireLensTags(p))
           THEN ("dd_tags" :> formatTags(fireLensTags(p)[1], ",")) ELSE <<>>)

\* options of ecs.LogDrivers.firelens({...})
firelensOptions(p) ==
    Spread(Spread(Spread(("Name" :> "datadog")
                         @@ ("Host" :> intakeHost(p))
                         @@ ("TLS" :> "on")
                         @@ ("provider" :> "ecs")
                         @@ ("dd_message_key" :> "log"),
                         IF TruthyStr(fireLensService(p))
                         THEN ("dd_service" :> fireLensService(p)[1]) ELSE <<>>),
                  IF TruthyStr(fireLensSource(p))
                  THEN ("dd_source" :> fireLensSource(p)[1]) ELSE <<>>),
           IF TruthyObj(fireLensTags(p))
           THEN ("dd_tags" :> formatTags(fireLensTags(p)[1], ",")) ELSE <<>>)

\* firelensLogDriver.bind(container, container)
firelensLogDriver(p) ==
    [logDriver |-> "awsfirelens",
     options |-> firelensOptions(p),
     secretOptions |-> ("apikey" :> p.datadogApiKeySecret)]

-----------------------------------------------------------------------------
(* The task definition collaborator (aws-cdk-lib), as fargate.ts uses it *)

\* task.findContainer(name): index of the first container of that name, 0 on a miss
findContainer(t, name) ==
    IF \E i \in 1..Len(t) : t[i].containerName = name
    THEN CHOOSE i \in 1..Len(t) :
             /\ t[i].containerName = name
             /\ \A j \in 1..(i - 1) : t[j].containerName /= name
    ELSE 0

\* faulty variant: the variable written replaces the container's environment
addEnvironmentFresh(c, name, value) == [c EXCEPT !.environment = (name :> value)]

\* container.addEnvironment(name, value)
addEnvironment(c, name, value) == [c EXCEPT !.environment = Put(@, name, value)]

\* the error of adding a second construct of the same name to the task
duplicateName(name) == [kind |-> "DuplicateContainerName", name |-> name]

\* the TypeError of assigning to a property of undefined
undefinedContainer(name) == [kind |-> "TypeError", name |-> name]

-----------------------------------------------------------------------------
(* The loops over the snapshot *)

\* faulty variant: the host is written under the default name as well
addApmVarsAlsoDefault(c, p) ==
    addEnvironment(
        addEnvironment(
            addEnvironment(
                addEnvironment(c, Coalesce(apmTraceEnabledEnvVarName(p), "DD_TRACE_ENABLED"), "true"),
                "DD_AGENT_HOST", "localhost"),
            Coalesce(apmHostEnvVarName(p), "DD_AGENT_HOST"), "localhost"),
        Coalesce(apmPortEnvVarName(p), "DD_TRACE_AGENT_PORT"), portString(apmPort(p), "8126"))

\* props.agent?.apm.applicationEnvVars as the APM loop body reads it: apm is
\* dereferenced without `?.`, which has no value when agent is there and apm
\* is not
apmEnvVarsInLoop(p) == IF p.agent = None THEN None ELSE p.agent[1].apm[1].applicationEnvVars

\* props.agent?.apm.applicationEnvVars?.[field] ?? dflt
apmNameInLoop(p, field, dflt) ==
    IF apmEnvVarsInLoop(p) = None THEN dflt ELSE Coalesce(apmEnvVarsInLoop(p)[1][field], dflt)

\* faulty variant: the port is written first and the trace flag last
addApmVarsPortFirst(c, p) ==
    addEnvironment(
        addEnvironment(
            addEnvironment(c, apmNameInLoop(p, "apmPortEnvVarName", "DD_TRACE_AGENT_PORT"),
                           portString(apmPort(p), "8126")),
            apmNameInLoop(p, "apmHostEnvVarName", "DD_AGENT_HOST"), "localhost"),
        apmNameInLoop(p, "apmTraceEnabledEnvVarName", "DD_TRACE_ENABLED"), "true")

\* the three addEnvironment calls of the APM loop body
addApmVars(c, p) ==
    addEnvironment(
        addEnvironment(
            addEnvironment(c, apmNameInLoop(p, "apmTraceEnabledEnvVarName", "DD_TRACE_ENABLED"), "true"),
            apmNameInLoop(p, "apmHostEnvVarName", "DD_AGENT_HOST"), "localhost"),
        apmNameInLoop(p, "apmPortEnvVarName", "DD_TRACE_AGENT_PORT"), portString(apmPort(p), "8126"))

\* faulty variant: a variable the container already has is left as it is
addStatsdVarsKeepExisting(c, p) ==
    LET host == Coalesce(statsdHostEnvVarName(p), "STATSD_HOST")
        port == Coalesce(statsdPortEnvVarName(p), "STATSD_PORT")
        c1 == IF host \in DOMAIN c.environment THEN c ELSE addEnvironment(c, host, "localhost")
    IN  IF port \in DOMAIN c1.environment THEN c1
        ELSE addEnvironment(c1, port, portString(statsdPort(p), "8125"))

\* the two addEnvironment calls of the StatsD loop body
addStatsdVars(c, p) ==
    addEnvironment(
        addEnvironment(c, Coalesce(statsdHostEnvVarName(p), "STATSD_HOST"), "localhost"),
        Coalesce(statsdPortEnvVarName(p), "STATSD_PORT"), portString(statsdPort(p), "8125"))

RECURSIVE apmLoop(_, _, _)
\* for (const containerName of containerNames) { findContainer; if (container) {...} }
apmLoop(t, names, p) ==
    IF names = <<>> THEN t
    ELSE LET i == findContainer(t, Head(names))
         IN  apmLoop(IF i = 0 THEN t ELSE [t EXCEPT ![i] = addApmVars(@, p)],
                     Tail(names), p)

RECURSIVE statsdLoop(_, _, _)
\* the same loop for the StatsD variables
statsdLoop(t, names, p) ==
    IF names = <<>> THEN t
    ELSE LET i == findContainer(t, Head(names))
         IN  statsdLoop(IF i = 0 THEN t ELSE [t EXCEPT ![i] = addStatsdVars(@, p)],
                        Tail(names), p)

RECURSIVE bindLoopKeepPrior(_, _, _)
\* faulty variant: a container that has a log configuration keeps it
bindLoopKeepPrior(t, names, p) ==
    IF names = <<>> THEN [task |-> t, error |-> None]
    ELSE LET i == findContainer(t, Head(names))
         IN  IF i = 0
             THEN [task |-> t, error |-> Some(undefinedContainer(Head(names)))]
             ELSE bindLoopKeepPrior(
                      IF t[i].logDriverConfig /= None THEN t
                      ELSE [t EXCEPT ![i].logDriverConfig = Some(firelensLogDriver(p))],
                      Tail(names), p)

RECURSIVE bindLoop(_, _, _)
\* for (const containerName of containerNames) { container.logDriverConfig = ... }
\* with no test of the lookup: the result is the task and the error, if any
bindLoop(t, names, p) ==
    IF names = <<>> THEN [task |-> t, error |-> None]
    ELSE LET i == findContainer(t, Head(names))
         IN  IF i = 0
             THEN [task |-> t, error |-> Some(undefinedContainer(Head(names)))]
             ELSE bindLoop([t EXCEPT ![i].logDriverConfig = Some(firelensLogDriver(p))],
                           Tail(names), p)

\* faulty variant: doNotSet is not consulted
apmPropagatesWheneverEnabled(p) == TruthyBool(apmEnabled(p))

\* props.agent?.apm?.enabled && props.agent?.apm?.applicationEnvVars?.doNotSet !== true
apmPropagates(p) == TruthyBool(apmEnabled(p)) /\ apmDoNotSet(p) /= Some(TRUE)

\* faulty variant: either doNotSet flag stops the StatsD loop
statsdPropagatesUnlessEitherSet(p) ==
    TruthyBool(statsdEnabled(p)) /\ statsdDoNotSet(p) /= Some(TRUE) /\ apmDoNotSet(p) /= Some(TRUE)

\* props.agent?.statsd?.enabled && props.agent?.statsd?.applicationEnvVars?.doNotSet !== true
statsdPropagates(p) == TruthyBool(statsdEnabled(p)) /\ statsdDoNotSet(p) /= Some(TRUE)

-----------------------------------------------------------------------------
(* Bounds of the inputs *)

\* most containers in the task before the first call
MaxSiblings == 2

\* most entries of a tags mapping
MaxTags == 2

\* most calls on one task (SpecSeq)
MaxCalls == 2

-----------------------------------------------------------------------------
(* The props trees handed to addDatadogToFargateTask *)

AddDatadogToFargateTaskProps(site, agent, fireLensLogging) ==
    [datadogApiKeySecret |-> "DatadogApiKeySecret",
     datadogSite |-> site,
     agent |-> agent,
     fireLensLogging |-> fireLensLogging]

DatadogFargateAgentProps(enabled, image, imageTag, memoryLimitMiB, cpu, logToCloudWatch, tags, apm, statsd) ==
    [enabled |-> enabled, image |-> image, imageTag |-> imageTag,
     memoryLimitMiB |-> memoryLimitMiB, cpu |-> cpu, logToCloudWatch |-> logToCloudWatch,
     tags |-> tags, apm |-> apm, statsd |-> statsd]

DatadogFargateApmProps(enabled, port, applicationEnvVars) ==
    [enabled |-> enabled, port |-> port, applicationEnvVars |-> applicationEnvVars]

DatadogFargateApmApplicationEnvVarsProps(doNotSet, host, port, traceEnabled) ==
    [doNotSet |-> doNotSet, apmHostEnvVarName |-> host, apmPortEnvVarName |-> port,
     apmTraceEnabledEnvVarName |-> traceEnabled]

DatadogFargateStatsdProps(enabled, port, applicationEnvVars) ==
    [enabled |-> enabled, port |-> port, applicationEnvVars |-> applicationEnvVars]

DatadogFargateStatsdApplicationEnvVarsProps(doNotSet, host, port) ==
    [doNotSet |-> doNotSet, statsdHostEnvVarName |-> host, statsdPortEnvVarName |-> port]

DatadogFargateFirelensLoggingProps(enabled, service, source, tags, memoryLimitMiB, cpu, image, imageTag) ==
    [enabled |-> enabled, service |-> service, source |-> source, tags |-> tags,
     memoryLimitMiB |-> memoryLimitMiB, cpu |-> cpu, image |-> image, imageTag |-> imageTag]

OptBool == {None, Some(TRUE), Some(FALSE)}

OptSite == {None, Some("datadoghq.eu"), Some("")}

OptPort == {None, Some(9126), Some(0)}

OptCpu == {None, Some(0), Some(128)}

OptFireLensCpu == {None, Some(0), Some(64)}

OptMemory == {None, Some(512), Some(0)}

OptImage == {None, Some([asset |-> "custom-image"])}

OptImageTag == {None, Some("7.52.0"), Some("")}

OptLabel == {None, Some("myservice"), Some("")}

TagEntries == << <<"env", "prod">>, <<"team", "core">>, <<"tier", "web">> >>

\* the tag mappings: the first n entries, in both orders of insertion
TagMaps ==
    UNION {{SubSeq(TagEntries, 1, n), [i \in 1..n |-> TagEntries[n + 1 - i]]} : n \in 0..MaxTags}

OptTags == {None} \cup {Some(t) : t \in TagMaps}

\* an agent object with every field absent but those given
PlainAgent(enabled, apm, statsd) ==
    DatadogFargateAgentProps(enabled, None, None, None, None, None, None, apm, statsd)

\* a fireLensLogging object with every field absent but enabled
PlainFireLens(enabled) ==
    DatadogFargateFirelensLoggingProps(enabled, None, None, None, None, None, None, None)

\* an apm object that is enabled with every other field absent
PlainApm == DatadogFargateApmProps(Some(TRUE), None, None)

\* a statsd object that is enabled with every other field absent
PlainStatsd == DatadogFargateStatsdProps(Some(TRUE), None, None)

\* an agent object with every field but enabled set
FullAgent(enabled) ==
    DatadogFargateAgentProps(enabled, Some([asset |-> "custom-image"]), Some("7.52.0"),
        Some(512), Some(128), Some(TRUE), Some(SubSeq(TagEntries, 1, 1)),
        Some(DatadogFargateApmProps(Some(TRUE), Some(9126),
            Some(DatadogFargateApmApplicationEnvVarsProps(Some(FALSE), None, None, None)))),
        Some(DatadogFargateStatsdProps(Some(TRUE), Some(9125),
            Some(DatadogFargateStatsdApplicationEnvVarsProps(Some(FALSE), None, None)))))

\* a fireLensLogging object with every field but enabled set
FullFireLens(enabled) ==
    DatadogFargateFirelensLoggingProps(enabled, Some("myservice"), Some("myservice"),
        Some(SubSeq(TagEntries, 1, 1)), Some(512), Some(64),
        Some([asset |-> "custom-image"]), Some("2.32.0"))

ApmVariants ==
    {None}
    \cup {Some(DatadogFargateApmProps(e, pt, None)) : e \in OptBool, pt \in OptPort}
    \cup {Some(DatadogFargateApmProps(e, pt,
               Some(DatadogFargateApmApplicationEnvVarsProps(d, None, None, None)))) :
           e \in OptBool, pt \in OptPort, d \in OptBool}
    \cup {Some(DatadogFargateApmProps(Some(TRUE), pt,
               Some(DatadogFargateApmApplicationEnvVarsProps(d, h, pn, tr)))) :
           pt \in {None, Some(9126)}, d \in OptBool,
           h \in {None, Some("APM_HOST")}, pn \in {None, Some("APM_PORT")},
           tr \in {None, Some("APM_ON")}}

ApmCore ==
    {None, Some(PlainApm), Some(DatadogFargateApmProps(Some(FALSE), None, None)),
     Some(DatadogFargateApmProps(Some(TRUE), None,
         Some(DatadogFargateApmApplicationEnvVarsProps(Some(TRUE), None, None, None))))}

StatsdVariants ==
    {None}
    \cup {Some(DatadogFargateStatsdProps(e, pt, None)) : e \in OptBool, pt \in OptPort}
    \cup {Some(DatadogFargateStatsdProps(e, pt,
               Some(DatadogFargateStatsdApplicationEnvVarsProps(d, None, None)))) :
           e \in OptBool, pt \in OptPort, d \in OptBool}
    \cup {Some(DatadogFargateStatsdProps(Some(TRUE), pt,
               Some(DatadogFargateStatsdApplicationEnvVarsProps(d, h, pn)))) :
           pt \in {None, Some(9126)}, d \in OptBool,
           h \in {None, Some("DOGSTATSD_HOST")}, pn \in {None, Some("DOGSTATSD_PORT")}}

StatsdCore ==
    {None, Some(PlainStatsd), Some(DatadogFargateStatsdProps(Some(FALSE), None, None)),
     Some(DatadogFargateStatsdProps(Some(TRUE), None,
         Some(DatadogFargateStatsdApplicationEnvVarsProps(Some(TRUE), None, None))))}

\* neither the agent nor the log router is enabled
DisabledFamily ==
    {AddDatadogToFargateTaskProps(site, a, f) :
        site \in {None, Some("datadoghq.eu")},
        a \in {None} \cup {Some(PlainAgent(e, None, None)) : e \in {None, Some(FALSE)}}
                     \cup {Some(FullAgent(e)) : e \in {None, Some(FALSE)}},
        f \in {None} \cup {Some(PlainFireLens(e)) : e \in {None, Some(FALSE)}}
                     \cup {Some(FullFireLens(e)) : e \in {None, Some(FALSE)}}}

\* the agent's image, memory and CloudWatch logging
ImageFamily ==
    {AddDatadogToFargateTaskProps(None,
         Some(DatadogFargateAgentProps(Some(TRUE), im, tg, mem, None, cw, None, None, None)),
         None) :
        im \in OptImage, tg \in OptImageTag, mem \in OptMemory, cw \in OptBool}

\* the agent's cpu against the log router's
CpuFamily ==
    {AddDatadogToFargateTaskProps(None,
         Some(DatadogFargateAgentProps(Some(TRUE), None, None, None, c, None, None, None, None)),
         f) :
        c \in OptCpu,
        f \in {None} \cup {Some(DatadogFargateFirelensLoggingProps(e, None, None, None, None,
                                     fc, None, None)) : e \in OptBool, fc \in OptFireLensCpu}}

\* the tags of the agent and of the log driver
TagsFamily ==
    {AddDatadogToFargateTaskProps(None,
         Some(DatadogFargateAgentProps(Some(TRUE), None, None, None, None, None, at, None, None)),
         Some(DatadogFargateFirelensLoggingProps(e, None, None, ft, None, None, None, None))) :
        at \in OptTags, ft \in OptTags, e \in {None, Some(TRUE)}}

\* APM and StatsD
ApmStatsdFamily ==
    {AddDatadogToFargateTaskProps(None, Some(PlainAgent(Some(TRUE), apm, sd)), None) :
        apm \in ApmVariants, sd \in StatsdCore}
    \cup {AddDatadogToFargateTaskProps(None, Some(PlainAgent(Some(TRUE), apm, sd)), None) :
        apm \in ApmCore, sd \in StatsdVariants}
    \cup {AddDatadogToFargateTaskProps(site, Some(PlainAgent(e, apm, sd)), f) :
        site \in {None, Some("datadoghq.eu")},
        e \in OptBool, apm \in ApmCore, sd \in StatsdCore,
        f \in {None, Some(PlainFireLens(Some(TRUE)))}}

\* the log router and the log driver
FireLensFamily ==
    {AddDatadogToFargateTaskProps(site, a,
         Some(DatadogFargateFirelensLoggingProps(e, sv, so, tg, None, None, None, None))) :
        site \in {None, Some("datadoghq.eu")},
        a \in {None, Some(PlainAgent(Some(TRUE), None, None))},
        e \in OptBool, sv \in OptLabel, so \in OptLabel,
        tg \in {None, Some(SubSeq(TagEntries, 1, 1))}}
    \cup {AddDatadogToFargateTaskProps(None, None,
         Some(DatadogFargateFirelensLoggingProps(Some(TRUE), None, None, None, mem, c, im, tg))) :
        mem \in OptMemory, c \in OptFireLensCpu, im \in OptImage, tg \in OptImageTag}

\* the Datadog site
SiteFamily ==
    {AddDatadogToFargateTaskProps(site, Some(PlainAgent(ae, None, None)), Some(PlainFireLens(fe))) :
        site \in OptSite, ae \in {None, Some(TRUE)}, fe \in {None, Some(TRUE)}}

\* variable names that coincide: with each other inside a feature, and with a
\* name of the other feature
CollisionFamily ==
    {AddDatadogToFargateTaskProps(None,
         Some(PlainAgent(Some(TRUE),
             Some(DatadogFargateApmProps(Some(TRUE), None,
                 Some(DatadogFargateApmApplicationEnvVarsProps(None, ah, ap, at)))),
             Some(DatadogFargateStatsdProps(Some(TRUE), None,
                 Some(DatadogFargateStatsdApplicationEnvVarsProps(None, sh, sp)))))),
         None) :
        ah \in {None, Some("SHARED"), Some("STATSD_HOST")},
        ap \in {None, Some("SHARED")},
        at \in {None, Some("SHARED"), Some("DD_AGENT_HOST")},
        sh \in {None, Some("SHARED"), Some("DD_AGENT_HOST")},
        sp \in {None, Some("SHARED")}}

\* the props of a single call (Spec)
PropsFamilies ==
    DisabledFamily \cup ImageFamily \cup CpuFamily \cup TagsFamily \cup ApmStatsdFamily
    \cup FireLensFamily \cup SiteFamily \cup CollisionFamily

\* the props of successive calls on one task (SpecSeq)
SeqFamily ==
    {AddDatadogToFargateTaskProps(None, a, f) :
        a \in {None, Some(PlainAgent(Some(TRUE), None, None)),
               Some(PlainAgent(Some(TRUE), Some(PlainApm), Some(PlainStatsd)))},
        f \in {None, Some(PlainFireLens(Some(TRUE))),
               Some(DatadogFargateFirelensLoggingProps(Some(TRUE), Some("myservice"),
                        Some("myservice"), None, None, None, None, None))}}

-----------------------------------------------------------------------------
(* The tasks the function is called on *)

\* containers the application defines itself
appContainer ==
    [containerName |-> "app",
     image |-> fromRegistry("example/app:1"),
     memoryLimitMiB |-> Some(512),
     cpu |-> Some(256),
     logDriverConfig |-> Some(awsLogs("app")),
     environment |-> ("APP_MODE" :> "prod") @@ ("DD_AGENT_HOST" :> "10.0.0.1")
                     @@ ("STATSD_PORT" :> "9999"),
     secrets |-> ("DB_PASSWORD" :> "DbPasswordSecret"),
     firelensConfig |-> None]

webContainer ==
    [containerName |-> "web",
     image |-> fromRegistry("example/web:1"),
     memoryLimitMiB |-> None,
     cpu |-> None,
     logDriverConfig |-> None,
     environment |-> <<>>,
     secrets |-> <<>>,
     firelensConfig |-> None]

\* what an earlier call with agent.enabled and fireLensLogging.enabled has left
earlierProps ==
    AddDatadogToFargateTaskProps(None, Some(PlainAgent(Some(TRUE), None, None)),
                                 Some(PlainFireLens(Some(TRUE))))

UserContainers == <<appContainer, webContainer>>

AnyContainers ==
    <<appContainer, webContainer, agentContainer(earlierProps), logRouterContainer(earlierProps)>>

RECURSIVE pick(_, _, _)
\* the containers of pool whose index is in S, in the order of pool
pick(pool, S, i) ==
    IF i > Len(pool) THEN <<>>
    ELSE (IF i \in S THEN <<pool[i]>> ELSE <<>>) \o pick(pool, S, i + 1)

\* the tasks of at most MaxSiblings containers of pool
Tasks(pool) ==
    {pick(pool, S, 1) : S \in {X \in SUBSET (1..Len(pool)) : Cardinality(X) <= MaxSiblings}}

\* the props variable outside a call
NoProps == AddDatadogToFargateTaskProps(None, None, None)

Ended == pc \in {"returned", "thrown"}

\* no constructor is running
NoConstruct ==
    [class |-> "", pc |-> "none", props |-> <<>>, taskDefinition |-> None, service |-> None]

-----------------------------------------------------------------------------
(* The state machine *)

InitOn(pool) ==
    /\ task \in Tasks(pool)
    /\ pc = "idle"
    /\ props = NoProps
    /\ containerNames = <<>>
    /\ error = None
    /\ pre = <<>>
    /\ history = <<>>
    /\ construct = NoConstruct

\* a single call on a task that may hold what an earlier call left
Init == InitOn(AnyContainers)

\* successive calls on a task of the application's own containers
InitSeq == InitOn(UserContainers)

\* faulty variant: the call starts at the log router block
InvokeRouterFirst(P) ==
    /\ pc = "idle"
    /\ Len(history) < MaxCalls
    /\ \E p \in P : props' = p
    /\ containerNames' = [i \in 1..Len(task) |-> task[i].containerName]
    /\ pre' = task
    /\ pc' = "firelens"
    /\ UNCHANGED <<task, error, history, construct>>

\* faulty variant: the snapshot leaves out the containers an earlier call added
InvokeSnapshotsOwnOnly(P) ==
    /\ pc = "idle"
    /\ Len(history) < MaxCalls
    /\ \E p \in P : props' = p
    /\ containerNames' =
           LET own(name) == name \notin {AgentContainerName, LogRouterName}
           IN  SelectSeq([i \in 1..Len(task) |-> task[i].containerName], own)
    /\ pre' = task
    /\ pc' = "agent"
    /\ UNCHANGED <<task, error, history, construct>>

\* entry: containerNames is the snapshot of task.containers
Invoke(P) ==
    /\ pc = "idle"
    /\ Len(history) < MaxCalls
    /\ \E p \in P : props' = p
    /\ containerNames' = [i \in 1..Len(task) |-> task[i].containerName]
    /\ pre' = task
    /\ pc' = "agent"
    /\ UNCHANGED <<task, error, history, construct>>

\* faulty variant: the agent is added only if the task has none, and the call goes on
AddAgentContainerIfMissing ==
    /\ pc = "agent"
    /\ IF TruthyBool(agentEnabled(props))
       THEN /\ task' = IF findContainer(task, AgentContainerName) /= 0
                       THEN task ELSE Append(task, agentContainer(props))
            /\ pc' = "apm"
            /\ error' = error
       ELSE /\ pc' = "firelens"
            /\ UNCHANGED <<task, error>>
    /\ UNCHANGED <<props, containerNames, pre, history, construct>>

\* faulty variant: the duplicate name is noticed only after the APM loop has run
AddAgentContainerThrowsLate ==
    /\ pc = "agent"
    /\ IF TruthyBool(agentEnabled(props))
       THEN IF findContainer(task, AgentContainerName) /= 0
            THEN /\ error' = Some(duplicateName(AgentContainerName))
                 /\ pc' = "thrown"
                 /\ task' = IF apmPropagates(props)
                            THEN apmLoop(task, containerNames, props) ELSE task
            ELSE /\ task' = Append(task, agentContainer(props))
                 /\ pc' = "apm"
                 /\ error' = error
       ELSE /\ pc' = "firelens"
            /\ UNCHANGED <<task, error>>
    /\ UNCHANGED <<props, containerNames, pre, history, construct>>

\* faulty variant: the two loops run whether or not the agent is enabled
AddAgentContainerLoopsOutside ==
    /\ pc = "agent"
    /\ IF TruthyBool(agentEnabled(props))
       THEN IF findContainer(task, AgentContainerName) /= 0
            THEN /\ error' = Some(duplicateName(AgentContainerName))
                 /\ pc' = "thrown"
                 /\ task' = task
            ELSE /\ task' = Append(task, agentContainer(props))
                 /\ pc' = "apm"
                 /\ error' = error
       ELSE /\ pc' = "apm"
            /\ UNCHANGED <<task, error>>
    /\ UNCHANGED <<props, containerNames, pre, history, construct>>

\* if (props.agent?.enabled) { task.addContainer('datadog-agent', {...}) ...
AddAgentContainer ==
    /\ pc = "agent"
    /\ IF TruthyBool(agentEnabled(props))
       THEN IF findContainer(task, AgentContainerName) /= 0
            THEN /\ error' = Some(duplicateName(AgentContainerName))
                 /\ pc' = "thrown"
                 /\ task' = task
            ELSE /\ task' = Append(task, agentContainer(props))
                 /\ pc' = "apm"
                 /\ error' = error
       ELSE /\ pc' = "firelens"
            /\ UNCHANGED <<task, error>>
    /\ UNCHANGED <<props, containerNames, pre, history, construct>>

\* faulty variant: the APM loop runs over the task's containers as they are now
PropagateApmLive ==
    /\ pc = "apm"
    /\ task' = IF apmPropagates(props)
               THEN apmLoop(task, [i \in 1..Len(task) |-> task[i].containerName], props)
               ELSE task
    /\ pc' = "statsd"
    /\ UNCHANGED <<props, containerNames, error, pre, history, construct>>

\* the APM loop over the snapshot
PropagateApm ==
    /\ pc = "apm"
    /\ task' = IF apmPropagates(props) THEN apmLoop(task, containerNames, props) ELSE task
    /\ pc' = "statsd"
    /\ UNCHANGED <<props, containerNames, error, pre, history, construct>>

\* the StatsD loop over the snapshot
PropagateStatsd ==
    /\ pc = "statsd"
    /\ task' = IF statsdPropagates(props) THEN statsdLoop(task, containerNames, props) ELSE task
    /\ pc' = "firelens"
    /\ UNCHANGED <<props, containerNames, error, pre, history, construct>>

\* faulty variant: a failed log router addition puts the task back as it was at entry
AddLogRouterRollsBack ==
    /\ pc = "firelens"
    /\ IF TruthyBool(fireLensEnabled(props))
       THEN IF findContainer(task, LogRouterName) /= 0
            THEN /\ error' = Some(duplicateName(LogRouterName))
                 /\ pc' = "thrown"
                 /\ task' = pre
            ELSE /\ task' = Append(task, logRouterContainer(props))
                 /\ pc' = "bind"
                 /\ error' = error
       ELSE /\ pc' = "returned"
            /\ UNCHANGED <<task, error>>
    /\ UNCHANGED <<props, containerNames, pre, history, construct>>

\* if (props.fireLensLogging?.enabled) { task.addFirelensLogRouter('log_router', {...}) ...
AddLogRouter ==
    /\ pc = "firelens"
    /\ IF TruthyBool(fireLensEnabled(props))
       THEN IF findContainer(task, LogRouterName) /= 0
            THEN /\ error' = Some(duplicateName(LogRouterName))
                 /\ pc' = "thrown"
                 /\ task' = task
            ELSE /\ task' = Append(task, logRouterContainer(props))
                 /\ pc' = "bind"
                 /\ error' = error
       ELSE /\ pc' = "returned"
            /\ UNCHANGED <<task, error>>
    /\ UNCHANGED <<props, containerNames, pre, history, construct>>

\* the loop that binds the firelens log driver to the snapshot
BindLogDriver ==
    /\ pc = "bind"
    /\ LET r == bindLoop(task, containerNames, props)
       IN  /\ task' = r.task
           /\ error' = r.error
           /\ pc' = IF r.error = None THEN "returned" ELSE "thrown"
    /\ UNCHANGED <<props, containerNames, pre, history, construct>>

\* the caller goes on after the call, with the task as the call left it
Return ==
    /\ Ended
    /\ history' = Append(history, [props |-> props, error |-> error])
    /\ pc' = "idle"
    /\ props' = NoProps
    /\ containerNames' = <<>>
    /\ error' = None
    /\ pre' = <<>>
    /\ UNCHANGED <<task, construct>>

Step ==
    \/ AddAgentContainer
    \/ PropagateApm
    \/ PropagateStatsd
    \/ AddLogRouter
    \/ BindLogDriver

Next == Invoke(PropsFamilies) \/ Step

Spec == Init /\ [][Next]_vars

NextSeq == Invoke(SeqFamily) \/ Step \/ Return

SpecSeq == InitSeq /\ [][NextSeq]_vars

\* the task stops holding a container of the snapshot while the call runs, so
\* that task.findContainer(containerName) returns undefined for it
LoseContainer ==
    /\ pc \in {"agent", "apm", "statsd", "firelens", "bind"}
    /\ \E i \in DOMAIN task :
           /\ \E k \in DOMAIN containerNames : containerNames[k] = task[i].containerName
           /\ task' = SubSeq(task, 1, i - 1) \o SubSeq(task, i + 1, Len(task))
    /\ UNCHANGED <<pc, props, containerNames, error, pre, history, construct>>

NextLive == Invoke(SeqFamily) \/ Step \/ LoseContainer

\* one call on a task whose lookups may miss
SpecLive == InitSeq /\ [][NextLive]_vars

-----------------------------------------------------------------------------
(* DatadogEcsDaemonService (ec2.ts): the constructor builds an EC2 task     *)
(* definition with the datadog-agent container, its mount points and the   *)
(* host volumes, and a daemon service.  construct.pc is the position        *)
(* inside the constructor.                                                 *)

fargateVars == <<task, pc, props, containerNames, error, pre, history>>

\* addDatadogToFargateTask is not running and there is no Fargate task
NoCall ==
    /\ task = <<>>
    /\ pc = "idle"
    /\ props = NoProps
    /\ containerNames = <<>>
    /\ error = None
    /\ pre = <<>>
    /\ history = <<>>

DaemonFamily == "datadog-agent-task"

DefaultDaemonCpu == 100

DefaultDaemonMemoryLimitMiB == 512

DatadogEcsLogsProps(enabled, collectFromAllContainers, collectFromAgentContainer) ==
    [enabled |-> enabled, collectFromAllContainers |-> collectFromAllContainers,
     collectFromAgentContainer |-> collectFromAgentContainer]

DatadogEcsDaemonServiceProps(site, logs, cpu, memoryLimitMiB, image, imageTag, logToCloudWatch, disableHealthcheck) ==
    [ecsCluster |-> "Cluster",
     datadogApiKeySecret |-> "DatadogApiKeySecret",
     datadogSite |-> site, logs |-> logs, cpu |-> cpu, memoryLimitMiB |-> memoryLimitMiB,
     image |-> image, imageTag |-> imageTag, logToCloudWatch |-> logToCloudWatch,
     disableHealthcheck |-> disableHealthcheck]

\* props.logs?.enabled, as a condition
logsEnabled(p) == p.logs /= None /\ TruthyBool(p.logs[1].enabled)

\* faulty variant: collectFromAllContainers is tested for truth
daemonLogsEnvironmentTruthy(p) ==
    IF logsEnabled(p)
    THEN Spread(("DD_LOGS_ENABLED" :> "true")
                @@ ("DD_LOGS_CONFIG_CONTAINER_COLLECT_ALL" :>
                        IF TruthyBool(p.logs[1].collectFromAllContainers) THEN "true" ELSE "false"),
                IF ~TruthyBool(p.logs[1].collectFromAgentContainer)
                THEN ("DD_CONTAINER_EXCLUDE" :> "name:datadog-agent") ELSE <<>>)
    ELSE <<>>

\* ...(props.logs?.enabled ? { DD_LOGS_ENABLED: 'true', ... } : {})
daemonLogsEnvironment(p) ==
    IF logsEnabled(p)
    THEN Spread(("DD_LOGS_ENABLED" :> "true")
                @@ ("DD_LOGS_CONFIG_CONTAINER_COLLECT_ALL" :>
                        IF p.logs[1].collectFromAllContainers /= Some(FALSE) THEN "true" ELSE "false"),
                IF ~TruthyBool(p.logs[1].collectFromAgentContainer)
                THEN ("DD_CONTAINER_EXCLUDE" :> "name:datadog-agent") ELSE <<>>)
    ELSE <<>>

\* environment: { DD_SITE: ..., ...logs }
daemonEnvironment(p) ==
    Spread("DD_SITE" :> Coalesce(p.datadogSite, DefaultSite), daemonLogsEnvironment(p))

\* healthCheck: { command: ['CMD-SHELL', 'agent health'], ... }, durations in seconds
daemonHealthCheck ==
    [command |-> <<"CMD-SHELL", "agent health">>, retries |-> 3, timeout |-> 5,
     interval |-> 10, startPeriod |-> 15]

\* the options of taskDefinition.addContainer('datadog-agent', {...})
daemonContainer(p) ==
    [containerName |-> AgentContainerName,
     image |-> Coalesce(p.image, fromRegistry(AgentRepository \o Coalesce(p.imageTag, "latest"))),
     cpu |-> Coalesce(p.cpu, DefaultDaemonCpu),
     memoryLimitMiB |-> Coalesce(p.memoryLimitMiB, DefaultDaemonMemoryLimitMiB),
     essential |-> TRUE,
     environment |-> daemonEnvironment(p),
     secrets |-> ("DD_API_KEY" :> p.datadogApiKeySecret),
     healthCheck |-> IF TruthyBool(p.disableHealthcheck) THEN None ELSE Some(daemonHealthCheck),
     logDriverConfig |-> IF TruthyBool(p.logToCloudWatch)
                         THEN Some(awsLogs(AgentContainerName)) ELSE None,
     mountPoints |-> <<>>]

MountPoint(containerPath, sourceVolume, readOnly) ==
    [containerPath |-> containerPath, sourceVolume |-> sourceVolume, readOnly |-> readOnly]

Volume(name, sourcePath) == [name |-> name, host |-> [sourcePath |-> sourcePath]]

\* the mount points every agent container gets
baseMountPoints ==
    <<MountPoint("/var/run/docker.sock", "docker_sock", TRUE),
      MountPoint("/host/sys/fs/cgroup", "cgroup", TRUE),
      MountPoint("/host/proc", "proc", TRUE)>>

\* the mount points of log collection
logMountPoints ==
    <<MountPoint("/opt/datadog-agent/run", "pointdir", FALSE),
      MountPoint("/var/lib/docker/containers", "containers_root", TRUE)>>

\* the volumes every task definition gets, in the order of the addVolume calls
baseVolumes ==
    <<Volume("docker_sock", "/var/run/docker.sock"),
      Volume("proc", "/proc/"),
      Volume("cgroup", "/sys/fs/cgroup/")>>

\* the volumes of log collection
logVolumes ==
    <<Volume("pointdir", "/opt/datadog-agent/run"),
      Volume("containers_root", "/var/lib/docker/containers")>>

\* the props the constructor is called with
DaemonProps ==
    {DatadogEcsDaemonServiceProps(site, logs, cpu, mem, image, tag, cw, hc) :
        site \in {None, Some("datadoghq.eu")},
        logs \in {None} \cup {Some(DatadogEcsLogsProps(e, all, ag)) :
                                  e \in OptBool, all \in OptBool, ag \in OptBool},
        cpu \in {None, Some(0)},
        mem \in {None, Some(1024)},
        image \in {None, Some([asset |-> "custom-image"])},
        tag \in {None, Some("7.52.0")},
        cw \in {None, Some(TRUE)},
        hc \in {None, Some(TRUE)}}

InitDaemon ==
    /\ NoCall
    /\ \E p \in DaemonProps :
           construct = [class |-> "DatadogEcsDaemonService", pc |-> "taskDefinition",
                        props |-> p, taskDefinition |-> None, service |-> None]

\* the container of the task definition under construction
DaemonAgent == construct.taskDefinition[1].containers[1]

\* new ecs.Ec2TaskDefinition(this, 'TaskDefinition', { family: 'datadog-agent-task' })
NewDaemonTaskDefinition ==
    /\ construct.class = "DatadogEcsDaemonService"
    /\ construct.pc = "taskDefinition"
    /\ construct' = [construct EXCEPT
           !.taskDefinition = Some([compatibility |-> "EC2", family |-> Some(DaemonFamily),
                                    cpu |-> None, memoryLimitMiB |-> None,
                                    containers |-> <<>>, volumes |-> <<>>]),
           !.pc = "addContainer"]
    /\ UNCHANGED fargateVars

\* const container = taskDefinition.addContainer('datadog-agent', {...})
AddDaemonContainer ==
    /\ construct.class = "DatadogEcsDaemonService"
    /\ construct.pc = "addContainer"
    /\ construct' = [construct EXCEPT
           !.taskDefinition[1].containers = Append(@, daemonContainer(construct.props)),
           !.pc = "mountPoints"]
    /\ UNCHANGED fargateVars

\* container.addMountPoints(docker_sock, cgroup, proc)
AddMountPoints ==
    /\ construct.class = "DatadogEcsDaemonService"
    /\ construct.pc = "mountPoints"
    /\ construct' = [construct EXCEPT
           !.taskDefinition[1].containers[1].mountPoints = @ \o baseMountPoints,
           !.pc = "logMountPoints"]
    /\ UNCHANGED fargateVars

\* faulty variant: the log mount points are added whatever logs is
AddLogMountPointsAlways ==
    /\ construct.class = "DatadogEcsDaemonService"
    /\ construct.pc = "logMountPoints"
    /\ construct' = [construct EXCEPT
           !.taskDefinition[1].containers[1].mountPoints = @ \o logMountPoints,
           !.pc = "volumes"]
    /\ UNCHANGED fargateVars

\* if (props.logs?.enabled) { container.addMountPoints(pointdir, containers_root) }
AddLogMountPoints ==
    /\ construct.class = "DatadogEcsDaemonService"
    /\ construct.pc = "logMountPoints"
    /\ construct' = [construct EXCEPT
           !.taskDefinition[1].containers[1].mountPoints =
               IF logsEnabled(construct.props) THEN @ \o logMountPoints ELSE @,
           !.pc = "volumes"]
    /\ UNCHANGED fargateVars

\* taskDefinition.addVolume(docker_sock); addVolume(proc); addVolume(cgroup)
AddVolumes ==
    /\ construct.class = "DatadogEcsDaemonService"
    /\ construct.pc = "volumes"
    /\ construct' = [construct EXCEPT
           !.taskDefinition[1].volumes = @ \o baseVolumes,
           !.pc = "logVolumes"]
    /\ UNCHANGED fargateVars

\* faulty variant: the log volumes are added unless logs.enabled is false
AddLogVolumesUnlessOff ==
    /\ construct.class = "DatadogEcsDaemonService"
    /\ construct.pc = "logVolumes"
    /\ construct' = [construct EXCEPT
           !.taskDefinition[1].volumes =
               IF construct.props.logs = None \/ construct.props.logs[1].enabled /= Some(FALSE)
               THEN @ \o logVolumes ELSE @,
           !.pc = "service"]
    /\ UNCHANGED fargateVars

\* if (props.logs?.enabled) { addVolume(pointdir); addVolume(containers_root) }
AddLogVolumes ==
    /\ construct.class = "DatadogEcsDaemonService"
    /\ construct.pc = "logVolumes"
    /\ construct' = [construct EXCEPT
           !.taskDefinition[1].volumes =
               IF logsEnabled(construct.props) THEN @ \o logVolumes ELSE @,
           !.pc = "service"]
    /\ UNCHANGED fargateVars

\* this.service = new ecs.Ec2Service(this, 'Service', { cluster, taskDefinition, daemon: true })
NewDaemonService ==
    /\ construct.class = "DatadogEcsDaemonService"
    /\ construct.pc = "service"
    /\ construct' = [construct EXCEPT
           !.service = Some([kind |-> "Ec2Service", cluster |-> construct.props.ecsCluster,
                             daemon |-> TRUE]),
           !.pc = "done"]
    /\ UNCHANGED fargateVars

NextDaemon ==
    \/ NewDaemonTaskDefinition
    \/ AddDaemonContainer
    \/ AddMountPoints
    \/ AddLogMountPoints
    \/ AddVolumes
    \/ AddLogVolumes
    \/ NewDaemonService

SpecDaemon == InitDaemon /\ [][NextDaemon]_vars

-----------------------------------------------------------------------------
(* The private synthetics services: one constructor for Fargate, one for   *)
(* EC2, sharing getAddContainerDefinitionOptions.                          *)

SyntheticsRepository == "datadog/synthetics-private-location-worker:"

SyntheticsContainerName == "DatadogAgent"

DefaultSyntheticsCpu == 256

DefaultSyntheticsMemoryLimitMiB == 512

DatadogPrivateSyntheticsServiceProps(site, image, imageTag, cpu, memoryLimitMiB) ==
    [ecsCluster |-> "Cluster",
     datadogApiKeySecret |-> "DatadogApiKeySecret",
     datadogAccessKeySecret |-> "DatadogAccessKeySecret",
     datadogSecretAccessKeySecret |-> "DatadogSecretAccessKeySecret",
     datadogPublicKeyPemSecret |-> "DatadogPublicKeyPemSecret",
     datadogPrivateKeySecret |-> "DatadogPrivateKeySecret",
     datadogSite |-> site,
     datadogLocationId |-> "pl:location",
     datadogPublicKeyFingerprint |-> "ab:cd",
     image |-> image, imageTag |-> imageTag, cpu |-> cpu, memoryLimitMiB |-> memoryLimitMiB]

\* getAddContainerDefinitionOptions(props), durations in seconds
getAddContainerDefinitionOptions(p) ==
    [image |-> Coalesce(p.image,
                        fromRegistry(SyntheticsRepository \o Coalesce(p.imageTag, "latest"))),
     secrets |-> ("DATADOG_API_KEY" :> p.datadogApiKeySecret)
                 @@ ("DATADOG_ACCESS_KEY" :> p.datadogAccessKeySecret)
                 @@ ("DATADOG_SECRET_ACCESS_KEY" :> p.datadogSecretAccessKeySecret)
                 @@ ("DATADOG_PUBLIC_KEY_PEM" :> p.datadogPublicKeyPemSecret)
                 @@ ("DATADOG_PRIVATE_KEY" :> p.datadogPrivateKeySecret),
     environment |-> ("DATADOG_SITE" :> Coalesce(p.datadogSite, DefaultSite)),
     command |-> <<"--locationID=" \o p.datadogLocationId,
                   "--publicKey.fingerprint=" \o p.datadogPublicKeyFingerprint,
                   "--enableStatusProbes", "--statusProbesPort=8080">>,
     healthCheck |-> [retries |-> 3,
                      command |-> <<"CMD-SHELL",
                                    "wget -O /dev/null http://localhost:8080/liveness || exit 1">>,
                      timeout |-> 2, interval |-> 10, startPeriod |-> 30],
     logDriverConfig |-> Some(awsLogs("datadog-synthetics-private-location-worker"))]

\* the props the constructors are called with
SyntheticsProps ==
    {DatadogPrivateSyntheticsServiceProps(site, image, tag, cpu, mem) :
        site \in {None, Some("datadoghq.eu")},
        image \in {None, Some([asset |-> "custom-image"])},
        tag \in {None, Some("1.43.0")},
        cpu \in {None, Some(0), Some(1024)},
        mem \in {None, Some(0), Some(2048)}}

InitSynthetics ==
    /\ NoCall
    /\ \E p \in SyntheticsProps :
       \E class \in {"DatadogPrivateSyntheticsFargateService", "DatadogPrivateSyntheticsEc2Service"} :
           construct = [class |-> class, pc |-> "taskDefinition",
                        props |-> p, taskDefinition |-> None, service |-> None]

\* new ecs.FargateTaskDefinition(this, 'TaskDefinition', { cpu, memoryLimitMiB })
NewSyntheticsFargateTaskDefinition ==
    /\ construct.class = "DatadogPrivateSyntheticsFargateService"
    /\ construct.pc = "taskDefinition"
    /\ construct' = [construct EXCEPT
           !.taskDefinition =
               Some([compatibility |-> "FARGATE", family |-> None,
                     cpu |-> Some(Coalesce(construct.props.cpu, DefaultSyntheticsCpu)),
                     memoryLimitMiB |-> Some(Coalesce(construct.props.memoryLimitMiB,
                                                      DefaultSyntheticsMemoryLimitMiB)),
                     containers |-> <<>>, volumes |-> <<>>]),
           !.pc = "addContainer"]
    /\ UNCHANGED fargateVars

\* taskDefinition.addContainer('DatadogAgent', this.getAddContainerDefinitionOptions(props))
AddSyntheticsFargateContainer ==
    /\ construct.class = "DatadogPrivateSyntheticsFargateService"
    /\ construct.pc = "addContainer"
    /\ construct' = [construct EXCEPT
           !.taskDefinition[1].containers =
               Append(@, [containerName |-> SyntheticsContainerName,
                          cpu |-> None, memoryLimitMiB |-> None]
                         @@ getAddContainerDefinitionOptions(construct.props)),
           !.pc = "service"]
    /\ UNCHANGED fargateVars

\* this.service = new ecs.FargateService(this, 'Service', { cluster, taskDefinition })
NewSyntheticsFargateService ==
    /\ construct.class = "DatadogPrivateSyntheticsFargateService"
    /\ construct.pc = "service"
    /\ construct' = [construct EXCEPT
           !.service = Some([kind |-> "FargateService", cluster |-> construct.props.ecsCluster,
                             daemon |-> FALSE]),
           !.pc = "done"]
    /\ UNCHANGED fargateVars

\* new ecs.Ec2TaskDefinition(this, 'TaskDefinition')
NewSyntheticsEc2TaskDefinition ==
    /\ construct.class = "DatadogPrivateSyntheticsEc2Service"
    /\ construct.pc = "taskDefinition"
    /\ construct' = [construct EXCEPT
           !.taskDefinition = Some([compatibility |-> "EC2", family |-> None,
                                    cpu |-> None, memoryLimitMiB |-> None,
                                    containers |-> <<>>, volumes |-> <<>>]),
           !.pc = "addContainer"]
    /\ UNCHANGED fargateVars

\* taskDefinition.addContainer('DatadogAgent', { ...containerProps, cpu, memoryLimitMiB })
AddSyntheticsEc2Container ==
    /\ construct.class = "DatadogPrivateSyntheticsEc2Service"
    /\ construct.pc = "addContainer"
    /\ construct' = [construct EXCEPT
           !.taskDefinition[1].containers =
               Append(@, [containerName |-> SyntheticsContainerName,
                          cpu |-> Some(Coalesce(construct.props.cpu, DefaultSyntheticsCpu)),
                          memoryLimitMiB |-> Some(Coalesce(construct.props.memoryLimitMiB,
                                                           DefaultSyntheticsMemoryLimitMiB))]
                         @@ getAddContainerDefinitionOptions(construct.props)),
           !.pc = "service"]
    /\ UNCHANGED fargateVars

\* this.service = new ecs.Ec2Service(this, 'Service', { cluster, taskDefinition })
NewSyntheticsEc2Service ==
    /\ construct.class = "DatadogPrivateSyntheticsEc2Service"
    /\ construct.pc = "service"
    /\ construct' = [construct EXCEPT
           !.service = Some([kind |-> "Ec2Service", cluster |-> construct.props.ecsCluster,
                             daemon |-> FALSE]),
           !.pc = "done"]
    /\ UNCHANGED fargateVars

NextSynthetics ==
    \/ NewSyntheticsFargateTaskDefinition
    \/ AddSyntheticsFargateContainer
    \/ NewSyntheticsFargateService
    \/ NewSyntheticsEc2TaskDefinition
    \/ AddSyntheticsEc2Container
    \/ NewSyntheticsEc2Service

SpecSynthetics == InitSynthetics /\ [][NextSynthetics]_vars

-----------------------------------------------------------------------------
(* Vocabulary of the properties *)

\* a call is running or has just ended
InCall == pc /= "idle"

\* the containers present before the call are the first Len(pre) of the task
Siblings == 1..Len(pre)

\* the datadog-agent container has been added by the running call
AgentAdded ==
    /\ InCall
    /\ Len(task) > Len(pre)
    /\ task[Len(pre) + 1].containerName = AgentContainerName

\* the datadog-agent container added by the running call
AddedAgent == task[Len(pre) + 1]

\* the APM loop and the StatsD loop of the running call are both over
PropagationOver == AgentAdded /\ pc \in {"firelens", "bind", "returned", "thrown"}

\* the running call has bound the firelens log driver
DriverBound ==
    /\ pc = "returned"
    /\ TruthyBool(fireLensEnabled(props))

\* the stringified port, or the default
PortText(port, dflt) == IF IsSome(port) THEN ToString(port[1]) ELSE dflt

NoNameOverrides ==
    /\ apmHostEnvVarName(props) = None
    /\ apmPortEnvVarName(props) = None
    /\ apmTraceEnabledEnvVarName(props) = None
    /\ statsdHostEnvVarName(props) = None
    /\ statsdPortEnvVarName(props) = None

\* the names under which the call writes the APM values, and the StatsD values
ApmNames ==
    {Coalesce(apmTraceEnabledEnvVarName(props), "DD_TRACE_ENABLED"),
     Coalesce(apmHostEnvVarName(props), "DD_AGENT_HOST"),
     Coalesce(apmPortEnvVarName(props), "DD_TRACE_AGENT_PORT")}

StatsdNames ==
    {Coalesce(statsdHostEnvVarName(props), "STATSD_HOST"),
     Coalesce(statsdPortEnvVarName(props), "STATSD_PORT")}

\* variable k of container i is as it was before the call
SameVariable(i, k) ==
    /\ (k \in DOMAIN task[i].environment) = (k \in DOMAIN pre[i].environment)
    /\ k \in DOMAIN pre[i].environment => task[i].environment[k] = pre[i].environment[k]

-----------------------------------------------------------------------------
(* C1..C10 *)

\* C1: with agent.enabled false or absent and fireLensLogging.enabled false or
\* absent (a missing agent or fireLensLogging object included), the call leaves
\* the task's containers as they were and returns, whatever the other fields are.
C1_DisabledLeavesTask ==
    (/\ InCall
     /\ (props.agent = None \/ props.agent[1].enabled \in {None, Some(FALSE)})
     /\ (props.fireLensLogging = None
            \/ props.fireLensLogging[1].enabled \in {None, Some(FALSE)}))
        => /\ task = pre
           /\ pc /= "thrown"

C1_Witness ==
    /\ pc = "returned"
    /\ props.agent = Some(FullAgent(None))
    /\ props.fireLensLogging = Some(FullFireLens(Some(FALSE)))
    /\ Len(pre) = 2
    /\ task = pre

\* C2: with agent.enabled, apm.enabled, doNotSet unset or false and no name
\* overrides, once the call has added the agent every container that was in the
\* task before the call has DD_TRACE_ENABLED="true", DD_AGENT_HOST="localhost"
\* and DD_TRACE_AGENT_PORT = the stringified apm.port ("8126" when unset), and
\* the added datadog-agent container has none of the three.
C2_ApmVariablesOnSiblings ==
    (/\ PropagationOver
     /\ TruthyBool(apmEnabled(props))
     /\ apmDoNotSet(props) \in {None, Some(FALSE)}
     /\ NoNameOverrides)
        => /\ \A i \in Siblings :
                /\ task[i].containerName = pre[i].containerName
                /\ {"DD_TRACE_ENABLED", "DD_AGENT_HOST", "DD_TRACE_AGENT_PORT"}
                       \subseteq DOMAIN task[i].environment
                /\ task[i].environment["DD_TRACE_ENABLED"] = "true"
                /\ task[i].environment["DD_AGENT_HOST"] = "localhost"
                /\ task[i].environment["DD_TRACE_AGENT_PORT"] = PortText(apmPort(props), "8126")
           /\ DOMAIN AddedAgent.environment
                  \cap {"DD_TRACE_ENABLED", "DD_AGENT_HOST", "DD_TRACE_AGENT_PORT"} = {}

C2_Witness ==
    /\ pc = "returned"
    /\ AgentAdded
    /\ TruthyBool(apmEnabled(props))
    /\ apmDoNotSet(props) = Some(FALSE)
    /\ NoNameOverrides
    /\ apmPort(props) = Some(0)
    /\ Len(pre) = 2
    /\ pre[1].environment["DD_AGENT_HOST"] = "10.0.0.1"
    /\ task[1].environment["DD_AGENT_HOST"] = "localhost"
    /\ task[2].environment["DD_TRACE_AGENT_PORT"] = "0"

\* C3: for each of APM and StatsD, when the feature's doNotSet is true no
\* container that was in the task before the call has any of the feature's
\* variables written by the call, whether the feature's enabled flag is true,
\* false or unset (a name the other feature writes too is judged there).
C3_DoNotSetSuppresses ==
    InCall =>
        /\ apmDoNotSet(props) = Some(TRUE) =>
              \A i \in Siblings :
                  \A k \in ApmNames \ (IF statsdPropagates(props) THEN StatsdNames ELSE {}) :
                      SameVariable(i, k)
        /\ statsdDoNotSet(props) = Some(TRUE) =>
              \A i \in Siblings :
                  \A k \in StatsdNames \ (IF apmPropagates(props) THEN ApmNames ELSE {}) :
                      SameVariable(i, k)

C3_Witness ==
    /\ pc = "returned"
    /\ AgentAdded
    /\ apmEnabled(props) = Some(TRUE)
    /\ apmDoNotSet(props) = Some(TRUE)
    /\ statsdEnabled(props) = Some(TRUE)
    /\ statsdDoNotSet(props) = Some(TRUE)
    /\ Len(pre) = 2
    /\ task[1].environment["DD_AGENT_HOST"] = "10.0.0.1"
    /\ task[2].environment = <<>>

\* C4 (as claimed): the added datadog-agent container reserves agent.cpu when
\* agent.cpu is set, whatever fireLensLogging.cpu is, and has no cpu when
\* agent.cpu is unset.
C4_AgentCpuIsAgentCpu ==
    AgentAdded =>
        /\ IsSome(agentCpu(props)) => AddedAgent.cpu = agentCpu(props)
        /\ agentCpu(props) = None => AddedAgent.cpu = None

\* C5: the image of the added datadog-agent container is agent.image when that
\* is supplied, whatever agent.imageTag is, and otherwise the registry image
\* public.ecr.aws/datadog/agent:<imageTag>, imageTag defaulting to "latest".
C5_AgentImage ==
    AgentAdded =>
        /\ IsSome(agentImageProp(props)) => AddedAgent.image = agentImageProp(props)[1]
        /\ (agentImageProp(props) = None /\ IsSome(agentImageTag(props))) =>
              AddedAgent.image =
                  [registry |-> "public.ecr.aws/datadog/agent:" \o agentImageTag(props)[1]]
        /\ (agentImageProp(props) = None /\ agentImageTag(props) = None) =>
              AddedAgent.image = [registry |-> "public.ecr.aws/datadog/agent:latest"]

C5_Witness ==
    /\ pc = "returned"
    /\ AgentAdded
    /\ agentImageProp(props) = Some([asset |-> "custom-image"])
    /\ agentImageTag(props) = Some("7.52.0")
    /\ AddedAgent.image = [asset |-> "custom-image"]

\* C6: a call with agent.enabled on a task on which an earlier call had
\* agent.enabled ends by throwing the duplicate-name error for "datadog-agent"
\* to its caller, having changed nothing.
C6_SecondAgentCallThrows ==
    (/\ Ended
     /\ props.agent /= None
     /\ props.agent[1].enabled = Some(TRUE)
     /\ \E n \in DOMAIN history :
            /\ history[n].props.agent /= None
            /\ history[n].props.agent[1].enabled = Some(TRUE))
        => /\ pc = "thrown"
           /\ error = Some([kind |-> "DuplicateContainerName", name |-> "datadog-agent"])
           /\ task = pre

C6_Witness ==
    /\ pc = "thrown"
    /\ Len(history) = 1
    /\ history[1].props.agent = Some(PlainAgent(Some(TRUE), Some(PlainApm), Some(PlainStatsd)))
    /\ history[1].error = None
    /\ props.agent = Some(PlainAgent(Some(TRUE), None, None))
    /\ error = Some([kind |-> "DuplicateContainerName", name |-> "datadog-agent"])
    /\ Len(task) = 3

\* C7: within one call the loops run over the names snapshotted at entry: every
\* container that was in the task before the call receives the propagated APM
\* and StatsD variables and the firelens log driver, and the datadog-agent and
\* log_router containers the call adds are never changed after they are added.
C7_OnlySnapshotReceives ==
    InCall =>
        /\ containerNames = [i \in 1..Len(pre) |-> pre[i].containerName]
        /\ \A j \in (Len(pre) + 1)..Len(task) :
              \/ task[j] = agentContainer(props)
              \/ task[j] = logRouterContainer(props)
        /\ (PropagationOver /\ apmPropagates(props)) =>
              \A i \in Siblings : ApmNames \subseteq DOMAIN task[i].environment
        /\ (PropagationOver /\ statsdPropagates(props)) =>
              \A i \in Siblings : StatsdNames \subseteq DOMAIN task[i].environment
        /\ DriverBound =>
              \A i \in Siblings :
                  /\ task[i].logDriverConfig /= None
                  /\ task[i].logDriverConfig[1].logDriver = "awsfirelens"

C7_Witness ==
    /\ pc = "returned"
    /\ Len(pre) = 2
    /\ Len(task) = 4
    /\ apmPropagates(props)
    /\ statsdPropagates(props)
    /\ task[3].containerName = "datadog-agent"
    /\ task[4].containerName = "log_router"
    /\ "DD_AGENT_HOST" \in DOMAIN task[2].environment
    /\ "DD_AGENT_HOST" \notin DOMAIN task[3].environment
    /\ task[2].logDriverConfig /= None
    /\ task[3].logDriverConfig = None
    /\ task[4].environment = <<>>

RECURSIVE PairsJoined(_, _, _)
\* the first n key:value pairs of T with sep between consecutive pairs
PairsJoined(T, n, sep) ==
    IF n = 0 THEN ""
    ELSE IF n = 1 THEN T[1][1] \o ":" \o T[1][2]
    ELSE PairsJoined(T, n - 1, sep) \o sep \o T[n][1] \o ":" \o T[n][2]

\* C8: the agent's DD_TAGS is the key:value pairs of agent.tags joined by a
\* single space, the log driver's dd_tags is the pairs of fireLensLogging.tags
\* in the same order joined by a comma, and for one mapping of two or more
\* entries given to both the two values differ.
C8_TagSeparators ==
    /\ (AgentAdded /\ IsSome(agentTags(props))) =>
          /\ "DD_TAGS" \in DOMAIN AddedAgent.environment
          /\ AddedAgent.environment["DD_TAGS"]
                 = PairsJoined(agentTags(props)[1], Len(agentTags(props)[1]), " ")
    /\ (DriverBound /\ IsSome(fireLensTags(props))) =>
          \A i \in Siblings :
              /\ "dd_tags" \in DOMAIN task[i].logDriverConfig[1].options
              /\ task[i].logDriverConfig[1].options["dd_tags"]
                     = PairsJoined(fireLensTags(props)[1], Len(fireLensTags(props)[1]), ",")
    /\ (/\ AgentAdded
        /\ DriverBound
        /\ IsSome(agentTags(props))
        /\ agentTags(props) = fireLensTags(props)
        /\ Len(agentTags(props)[1]) >= 2) =>
          \A i \in Siblings :
              task[i].logDriverConfig[1].options["dd_tags"] /= AddedAgent.environment["DD_TAGS"]

C8_Witness ==
    /\ AgentAdded
    /\ DriverBound
    /\ Len(pre) = 1
    /\ agentTags(props) = Some(<< <<"env", "prod">>, <<"team", "core">> >>)
    /\ fireLensTags(props) = agentTags(props)
    /\ task[2].environment["DD_TAGS"] = "env:prod team:core"
    /\ task[1].logDriverConfig[1].options["dd_tags"] = "env:prod,team:core"

\* C9 (as claimed): with fireLensLogging.enabled the log-driver options hold
\* dd_service exactly when service is supplied and dd_source exactly when source
\* is supplied, each with that value, and no dd_tags when no tags are supplied.
C9_LabelsWhenSupplied ==
    DriverBound =>
        \A i \in Siblings :
            LET o == task[i].logDriverConfig[1].options
            IN  /\ ("dd_service" \in DOMAIN o) = IsSome(fireLensService(props))
                /\ IsSome(fireLensService(props)) => o["dd_service"] = fireLensService(props)[1]
                /\ ("dd_source" \in DOMAIN o) = IsSome(fireLensSource(props))
                /\ IsSome(fireLensSource(props)) => o["dd_source"] = fireLensSource(props)[1]
                /\ fireLensTags(props) = None => "dd_tags" \notin DOMAIN o

\* C9 (amended): with fireLensLogging.enabled the log-driver options hold
\* dd_service exactly when service is supplied and not the empty string, and
\* dd_source exactly when source is supplied and not the empty string, each with
\* that value, and no dd_tags when no tags are supplied.
C9_LabelsWhenNonEmpty ==
    DriverBound =>
        \A i \in Siblings :
            LET o == task[i].logDriverConfig[1].options
                service == fireLensService(props)
                source == fireLensSource(props)
            IN  /\ ("dd_service" \in DOMAIN o) = (service /= None /\ service[1] /= "")
                /\ (service /= None /\ service[1] /= "") => o["dd_service"] = service[1]
                /\ ("dd_source" \in DOMAIN o) = (source /= None /\ source[1] /= "")
                /\ (source /= None /\ source[1] /= "") => o["dd_source"] = source[1]
                /\ fireLensTags(props) = None => "dd_tags" \notin DOMAIN o

C9_Witness ==
    /\ DriverBound
    /\ Len(pre) = 2
    /\ fireLensService(props) = Some("myservice")
    /\ fireLensSource(props) = Some("")
    /\ fireLensTags(props) = None
    /\ task[1].logDriverConfig[1].options["dd_service"] = "myservice"
    /\ DOMAIN task[2].logDriverConfig[1].options
          = {"Name", "Host", "TLS", "provider", "dd_message_key", "dd_service"}

\* C10: the environment of the added datadog-agent container always holds
\* ECS_FARGATE="true", DD_SITE (datadogSite, else "datadoghq.com"), and
\* DD_APM_ENABLED and DD_USE_DOGSTATSD as "true" or "false" after the apm and
\* statsd enabled flags; DD_APM_RECEIVER_PORT and DD_DOGSTATSD_PORT are the
\* stringified port (default 8126, 8125) when the feature is enabled.
C10_AgentEnvironment ==
    AgentAdded =>
        LET env == AddedAgent.environment
        IN  /\ {"ECS_FARGATE", "DD_SITE", "DD_APM_ENABLED", "DD_USE_DOGSTATSD"} \subseteq DOMAIN env
            /\ env["ECS_FARGATE"] = "true"
            /\ env["DD_SITE"]
                   = (IF props.datadogSite = None THEN "datadoghq.com" ELSE props.datadogSite[1])
            /\ env["DD_APM_ENABLED"] = (IF apmEnabled(props) = Some(TRUE) THEN "true" ELSE "false")
            /\ env["DD_USE_DOGSTATSD"]
                   = (IF statsdEnabled(props) = Some(TRUE) THEN "true" ELSE "false")
            /\ apmEnabled(props) = Some(TRUE) =>
                  /\ "DD_APM_RECEIVER_PORT" \in DOMAIN env
                  /\ env["DD_APM_RECEIVER_PORT"] = PortText(apmPort(props), "8126")
            /\ statsdEnabled(props) = Some(TRUE) =>
                  /\ "DD_DOGSTATSD_PORT" \in DOMAIN env
                  /\ env["DD_DOGSTATSD_PORT"] = PortText(statsdPort(props), "8125")

C10_Witness ==
    /\ pc = "returned"
    /\ AgentAdded
    /\ props.datadogSite = Some("datadoghq.eu")
    /\ apmEnabled(props) = Some(TRUE)
    /\ statsdEnabled(props) = Some(FALSE)
    /\ AddedAgent.environment
          = [ECS_FARGATE |-> "true", DD_SITE |-> "datadoghq.eu", DD_APM_ENABLED |-> "true",
             DD_APM_RECEIVER_PORT |-> "8126", DD_USE_DOGSTATSD |-> "false"]

\* C11 (as claimed): when agent.enabled and agent.statsd.enabled are true and
\* statsd.applicationEnvVars.doNotSet is not true, every container that was in
\* the task before the call ends with the StatsD host variable equal to
\* "localhost" and the StatsD port variable equal to the stringified
\* statsd.port ("8125" when unset), under the names STATSD_HOST and
\* STATSD_PORT unless overridden, whatever the overriding names are.
C11_StatsdVariablesAnyNames ==
    (/\ PropagationOver
     /\ statsdEnabled(props) = Some(TRUE)
     /\ statsdDoNotSet(props) /= Some(TRUE))
        => \A i \in Siblings :
               LET env == task[i].environment
               IN  /\ StatsdNames \subseteq DOMAIN env
                   /\ env[Coalesce(statsdHostEnvVarName(props), "STATSD_HOST")] = "localhost"
                   /\ env[Coalesce(statsdPortEnvVarName(props), "STATSD_PORT")]
                          = PortText(statsdPort(props), "8125")

\* C11: when agent.enabled and agent.statsd.enabled are true and
\* statsd.applicationEnvVars.doNotSet is not true, every container that was in
\* the task before the call ends with the StatsD host variable equal to
\* "localhost" and the StatsD port variable equal to the stringified
\* statsd.port ("8125" when unset); the variables are named STATSD_HOST and
\* STATSD_PORT unless statsdHostEnvVarName / statsdPortEnvVarName name them,
\* provided the two names differ.
C11_StatsdVariablesOnSiblings ==
    LET sd == props.agent[1].statsd[1]
        names == IF sd.applicationEnvVars = None
                 THEN [host |-> None, port |-> None]
                 ELSE [host |-> sd.applicationEnvVars[1].statsdHostEnvVarName,
                       port |-> sd.applicationEnvVars[1].statsdPortEnvVarName]
        hostName == IF names.host = None THEN "STATSD_HOST" ELSE names.host[1]
        portName == IF names.port = None THEN "STATSD_PORT" ELSE names.port[1]
    IN  (/\ PropagationOver
         /\ props.agent[1].statsd /= None
         /\ sd.enabled = Some(TRUE)
         /\ statsdDoNotSet(props) /= Some(TRUE)
         /\ hostName /= portName)
            => \A i \in Siblings :
                   /\ task[i].containerName = pre[i].containerName
                   /\ {hostName, portName} \subseteq DOMAIN task[i].environment
                   /\ task[i].environment[hostName] = "localhost"
                   /\ task[i].environment[portName] = PortText(sd.port, "8125")

C11_Witness ==
    /\ pc = "returned"
    /\ AgentAdded
    /\ statsdEnabled(props) = Some(TRUE)
    /\ statsdDoNotSet(props) = None
    /\ statsdPort(props) = None
    /\ statsdHostEnvVarName(props) = None
    /\ statsdPortEnvVarName(props) = None
    /\ Len(pre) = 2
    /\ pre[1].environment["STATSD_PORT"] = "9999"
    /\ task[1].environment["STATSD_PORT"] = "8125"
    /\ task[1].environment["STATSD_HOST"] = "localhost"
    /\ task[2].environment["STATSD_PORT"] = "8125"

\* the writes the call makes to each sibling, in order: the field's default
\* name, the name supplied for it (if any) and the value
FieldWrites ==
    (IF apmPropagates(props)
     THEN <<[default |-> "DD_TRACE_ENABLED", supplied |-> apmTraceEnabledEnvVarName(props),
             value |-> "true"],
            [default |-> "DD_AGENT_HOST", supplied |-> apmHostEnvVarName(props),
             value |-> "localhost"],
            [default |-> "DD_TRACE_AGENT_PORT", supplied |-> apmPortEnvVarName(props),
             value |-> PortText(apmPort(props), "8126")]>>
     ELSE <<>>)
    \o
    (IF statsdPropagates(props)
     THEN <<[default |-> "STATSD_HOST", supplied |-> statsdHostEnvVarName(props),
             value |-> "localhost"],
            [default |-> "STATSD_PORT", supplied |-> statsdPortEnvVarName(props),
             value |-> PortText(statsdPort(props), "8125")]>>
     ELSE <<>>)

\* the name write k goes to
WrittenName(k) ==
    IF FieldWrites[k].supplied = None THEN FieldWrites[k].default
    ELSE FieldWrites[k].supplied[1]

\* C12: each propagated variable's name is overridable on its own: when a
\* name is supplied for one of the five fields, every sibling has the field's
\* value under that name, the field's default name is not written (it is as
\* before the call), and a field with no supplied name has its value under
\* its default name.  A name that a later write of the call goes to as well
\* is judged with that write.
C12_NamesOverridablePerField ==
    PropagationOver =>
        \A i \in Siblings : \A k \in DOMAIN FieldWrites :
            /\ (\A j \in DOMAIN FieldWrites : j > k => WrittenName(j) /= WrittenName(k))
                   => /\ WrittenName(k) \in DOMAIN task[i].environment
                      /\ task[i].environment[WrittenName(k)] = FieldWrites[k].value
            /\ (/\ FieldWrites[k].supplied /= None
                /\ \A j \in DOMAIN FieldWrites : WrittenName(j) /= FieldWrites[k].default)
                   => SameVariable(i, FieldWrites[k].default)

C12_Witness ==
    /\ pc = "returned"
    /\ AgentAdded
    /\ apmPropagates(props)
    /\ apmHostEnvVarName(props) = Some("APM_HOST")
    /\ apmPortEnvVarName(props) = None
    /\ apmTraceEnabledEnvVarName(props) = None
    /\ Len(pre) = 2
    /\ task[1].environment["APM_HOST"] = "localhost"
    /\ task[1].environment["DD_AGENT_HOST"] = "10.0.0.1"
    /\ task[2].environment["APM_HOST"] = "localhost"
    /\ "DD_AGENT_HOST" \notin DOMAIN task[2].environment
    /\ "DD_TRACE_AGENT_PORT" \in DOMAIN task[2].environment
    /\ "DD_TRACE_ENABLED" \in DOMAIN task[2].environment

\* C13: when fireLensLogging.enabled is true, after a call that returns every
\* container that was in the task before the call has the resolved firelens
\* log-driver configuration as its log configuration, whatever log
\* configuration (or none) it had before.
C13_SiblingsBoundToFirelens ==
    (/\ pc = "returned"
     /\ props.fireLensLogging /= None
     /\ props.fireLensLogging[1].enabled = Some(TRUE))
        => \A i \in Siblings :
               /\ task[i].containerName = pre[i].containerName
               /\ task[i].logDriverConfig = Some(firelensLogDriver(props))

C13_Witness ==
    /\ pc = "returned"
    /\ fireLensEnabled(props) = Some(TRUE)
    /\ Len(pre) = 2
    /\ pre[1].logDriverConfig = Some(awsLogs("app"))
    /\ pre[2].logDriverConfig = None
    /\ task[1].logDriverConfig[1].logDriver = "awsfirelens"
    /\ task[2].logDriverConfig[1].logDriver = "awsfirelens"
    /\ task[1].logDriverConfig[1].options["Name"] = "datadog"

\* C14: the Host option of the firelens log driver is "http-intake.logs."
\* followed by the site the agent receives as DD_SITE (datadogSite, else
\* "datadoghq.com"), and the TLS option is "on", whatever the configuration.
C14_IntakeHostAndTls ==
    DriverBound =>
        LET site == IF props.datadogSite = None THEN "datadoghq.com" ELSE props.datadogSite[1]
        IN  /\ \A i \in Siblings :
                   /\ task[i].logDriverConfig[1].options["Host"] = "http-intake.logs." \o site
                   /\ task[i].logDriverConfig[1].options["TLS"] = "on"
            /\ AgentAdded => AddedAgent.environment["DD_SITE"] = site

C14_Witness ==
    /\ DriverBound
    /\ AgentAdded
    /\ props.datadogSite = Some("datadoghq.eu")
    /\ Len(pre) = 2
    /\ AddedAgent.environment["DD_SITE"] = "datadoghq.eu"
    /\ task[1].logDriverConfig[1].options["Host"] = "http-intake.logs.datadoghq.eu"
    /\ task[2].logDriverConfig[1].options["TLS"] = "on"

\* the props with every absent nested object replaced by that object with
\* every field absent
FilledApm(a) ==
    LET none == DatadogFargateApmApplicationEnvVarsProps(None, None, None, None)
    IN  IF a = None THEN DatadogFargateApmProps(None, None, Some(none))
        ELSE [a[1] EXCEPT !.applicationEnvVars = IF @ = None THEN Some(none) ELSE @]

FilledStatsd(a) ==
    LET none == DatadogFargateStatsdApplicationEnvVarsProps(None, None, None)
    IN  IF a = None THEN DatadogFargateStatsdProps(None, None, Some(none))
        ELSE [a[1] EXCEPT !.applicationEnvVars = IF @ = None THEN Some(none) ELSE @]

FilledAgent(a) ==
    IF a = None THEN PlainAgent(None, Some(FilledApm(None)), Some(FilledStatsd(None)))
    ELSE [a[1] EXCEPT !.apm = Some(FilledApm(@)), !.statsd = Some(FilledStatsd(@))]

Filled(p) ==
    [p EXCEPT !.agent = Some(FilledAgent(@)),
              !.fireLensLogging = IF @ = None THEN Some(PlainFireLens(None)) ELSE @]

\* some nested object of the props is absent
SomeObjectAbsent == Filled(props) /= props

\* the environment a sibling has after both loops of a call with props q
PropagatedEnvironment(c, q) ==
    LET c1 == IF apmPropagates(q) THEN addApmVars(c, q) ELSE c
        c2 == IF statsdPropagates(q) THEN addStatsdVars(c1, q) ELSE c1
    IN  c2.environment

\* C15: the resolution of the configuration never fails, and an absent nested
\* object (agent, agent.apm, agent.apm.applicationEnvVars, agent.statsd,
\* agent.statsd.applicationEnvVars, fireLensLogging) gives what that object
\* gives when present with every field absent: in every state of a call the
\* containers added, the variables written and the log driver bound are those
\* of the props with every absent object filled in, and an error of the call
\* is an error of the task.
C15_AbsentObjectIsEmptyObject ==
    InCall =>
        LET q == Filled(props)
        IN  /\ error /= None => error[1].kind = "DuplicateContainerName"
            /\ AgentAdded => AddedAgent = agentContainer(q)
            /\ PropagationOver =>
                   \A i \in Siblings : task[i].environment = PropagatedEnvironment(pre[i], q)
            /\ (pc = "bind" \/ (pc = "returned" /\ TruthyBool(fireLensEnabled(q))))
                   => task[Len(task)] = logRouterContainer(q)
            /\ pc = "returned" =>
                   /\ Len(task) = Len(pre)
                                    + (IF TruthyBool(agentEnabled(q)) THEN 1 ELSE 0)
                                    + (IF TruthyBool(fireLensEnabled(q)) THEN 1 ELSE 0)
                   /\ \A i \in Siblings :
                          task[i].logDriverConfig =
                              IF TruthyBool(fireLensEnabled(q))
                              THEN Some(firelensLogDriver(q)) ELSE pre[i].logDriverConfig

C15_Witness ==
    /\ pc = "returned"
    /\ SomeObjectAbsent
    /\ error = None
    /\ AgentAdded
    /\ props.fireLensLogging = None
    /\ props.agent[1].statsd = None
    /\ props.agent[1].apm /= None
    /\ props.agent[1].apm[1].enabled = Some(TRUE)
    /\ props.agent[1].apm[1].applicationEnvVars = None
    /\ Len(pre) = 2
    /\ task[2].environment["DD_AGENT_HOST"] = "localhost"
    /\ AddedAgent.environment["DD_USE_DOGSTATSD"] = "false"

\* the constructor of DatadogEcsDaemonService has added the agent container
DaemonAgentAdded ==
    /\ construct.class = "DatadogEcsDaemonService"
    /\ construct.pc \notin {"taskDefinition", "addContainer"}

LogVolumeNames == {"pointdir", "containers_root"}

\* C16: DatadogEcsDaemonService with logs.enabled = true gives the agent
\* DD_LOGS_ENABLED = "true"; DD_LOGS_CONFIG_CONTAINER_COLLECT_ALL is "false"
\* exactly when collectFromAllContainers is false and "true" otherwise;
\* DD_CONTAINER_EXCLUDE is absent exactly when collectFromAgentContainer is
\* true and is "name:datadog-agent" otherwise.  With no other logs field set
\* the three are "true", "true" and "name:datadog-agent".
C16_DaemonLogsEnvironment ==
    (/\ DaemonAgentAdded
     /\ construct.props.logs /= None
     /\ construct.props.logs[1].enabled = Some(TRUE))
        => LET logs == construct.props.logs[1]
               env == DaemonAgent.environment
           IN  /\ {"DD_LOGS_ENABLED", "DD_LOGS_CONFIG_CONTAINER_COLLECT_ALL"} \subseteq DOMAIN env
               /\ env["DD_LOGS_ENABLED"] = "true"
               /\ env["DD_LOGS_CONFIG_CONTAINER_COLLECT_ALL"]
                      = (IF logs.collectFromAllContainers = Some(FALSE) THEN "false" ELSE "true")
               /\ ("DD_CONTAINER_EXCLUDE" \notin DOMAIN env)
                      <=> logs.collectFromAgentContainer = Some(TRUE)
               /\ "DD_CONTAINER_EXCLUDE" \in DOMAIN env
                      => env["DD_CONTAINER_EXCLUDE"] = "name:datadog-agent"

C16_Witness ==
    /\ construct.class = "DatadogEcsDaemonService"
    /\ construct.pc = "done"
    /\ construct.props.logs = Some(DatadogEcsLogsProps(Some(TRUE), None, None))
    /\ DaemonAgent.environment["DD_LOGS_ENABLED"] = "true"
    /\ DaemonAgent.environment["DD_LOGS_CONFIG_CONTAINER_COLLECT_ALL"] = "true"
    /\ DaemonAgent.environment["DD_CONTAINER_EXCLUDE"] = "name:datadog-agent"

\* C17: DatadogEcsDaemonService collects no logs by default: when logs is
\* absent or logs.enabled is not true, the agent environment has none of
\* DD_LOGS_ENABLED, DD_LOGS_CONFIG_CONTAINER_COLLECT_ALL, DD_CONTAINER_EXCLUDE,
\* and no pointdir or containers_root mount point or volume is added,
\* whatever the other logs fields are.
C17_DaemonLogsOffByDefault ==
    (/\ DaemonAgentAdded
     /\ (construct.props.logs = None \/ construct.props.logs[1].enabled /= Some(TRUE)))
        => LET td == construct.taskDefinition[1]
           IN  /\ DOMAIN DaemonAgent.environment
                      \cap {"DD_LOGS_ENABLED", "DD_LOGS_CONFIG_CONTAINER_COLLECT_ALL",
                            "DD_CONTAINER_EXCLUDE"} = {}
               /\ \A m \in DOMAIN DaemonAgent.mountPoints :
                      DaemonAgent.mountPoints[m].sourceVolume \notin LogVolumeNames
               /\ \A v \in DOMAIN td.volumes : td.volumes[v].name \notin LogVolumeNames
               /\ construct.pc = "done" => Len(DaemonAgent.mountPoints) = 3 /\ Len(td.volumes) = 3

C17_Witness ==
    /\ construct.class = "DatadogEcsDaemonService"
    /\ construct.pc = "done"
    /\ construct.props.logs = Some(DatadogEcsLogsProps(Some(FALSE), Some(TRUE), Some(TRUE)))
    /\ DOMAIN DaemonAgent.environment = {"DD_SITE"}
    /\ Len(DaemonAgent.mountPoints) = 3
    /\ Len(construct.taskDefinition[1].volumes) = 3

\* the private synthetics constructor has ended
SyntheticsBuilt ==
    /\ construct.class \in {"DatadogPrivateSyntheticsFargateService",
                            "DatadogPrivateSyntheticsEc2Service"}
    /\ construct.pc = "done"

\* the cpu units and the memory the service reserves: on the task definition
\* for Fargate, on the container for EC2
SyntheticsReserved ==
    IF construct.class = "DatadogPrivateSyntheticsFargateService"
    THEN [cpu |-> construct.taskDefinition[1].cpu,
          memoryLimitMiB |-> construct.taskDefinition[1].memoryLimitMiB]
    ELSE [cpu |-> construct.taskDefinition[1].containers[1].cpu,
          memoryLimitMiB |-> construct.taskDefinition[1].containers[1].memoryLimitMiB]

\* C18 (as claimed): for the private synthetics services, in the Fargate and
\* in the EC2 variant, 100 cpu units are reserved when props.cpu is unset and
\* the memory is 512 when props.memoryLimitMiB is unset.
C18_SyntheticsDefaults ==
    SyntheticsBuilt =>
        /\ construct.props.cpu = None => SyntheticsReserved.cpu = Some(100)
        /\ construct.props.memoryLimitMiB = None => SyntheticsReserved.memoryLimitMiB = Some(512)

\* the names of the snapshot
SnapshotNames == {containerNames[k] : k \in DOMAIN containerNames}

\* C19 (as claimed): a snapshotted name whose lookup misses is skipped
\* silently in the APM loop, the StatsD loop and the binding of the firelens
\* log driver: the call raises no error for it and goes on with the other
\* names, so a call ends in no error but the task's own and a call that
\* returns has bound the log driver to every snapshotted container still in
\* the task.
C19_MissSkippedSilently ==
    /\ error /= None => error[1].kind = "DuplicateContainerName"
    /\ (pc = "returned" /\ TruthyBool(fireLensEnabled(props)))
           => \A i \in DOMAIN task :
                  task[i].containerName \in SnapshotNames
                      => task[i].logDriverConfig = Some(firelensLogDriver(props))

\* the positions of a call in the order of the source
Rank(position) ==
    CASE position = "agent" -> 1
      [] position = "apm" -> 2
      [] position = "statsd" -> 3
      [] position = "firelens" -> 4
      [] position = "bind" -> 5
      [] position = "returned" -> 6
      [] OTHER -> 0

\* the task after the step is the task before it with one container added
Adds(name) ==
    /\ Len(task') = Len(task) + 1
    /\ SubSeq(task', 1, Len(task)) = task
    /\ task'[Len(task')].containerName = name

\* the step changes nothing but the given field of containers of the snapshot
WritesOnly(field) ==
    /\ Len(task') = Len(task)
    /\ \A i \in DOMAIN task :
           /\ [task'[i] EXCEPT ![field] = task[i][field]] = task[i]
           /\ i > Len(pre) => task'[i] = task[i]

\* C20: when agent and fireLensLogging are both enabled, the mutations of a
\* call come in one order: the datadog-agent container is added to the task
\* as it was at entry, then the APM variables are written, then the StatsD
\* variables, then the log_router is added behind the agent, then the log
\* driver is bound to the siblings; each step is followed by the next one,
\* and a step that throws changes nothing.  No log-router step comes before
\* the agent step.
C20_FixedOrder ==
    [][(/\ pc \notin {"idle", "returned", "thrown"}
        /\ props.agent /= None /\ props.agent[1].enabled = Some(TRUE)
        /\ props.fireLensLogging /= None /\ props.fireLensLogging[1].enabled = Some(TRUE))
       => IF pc' = "thrown" THEN task' = task
          ELSE /\ Rank(pc') = Rank(pc) + 1
               /\ pc = "agent" => task = pre /\ Adds(AgentContainerName)
               /\ pc = "apm" => Len(task) = Len(pre) + 1 /\ WritesOnly("environment")
               /\ pc = "statsd" => Len(task) = Len(pre) + 1 /\ WritesOnly("environment")
               /\ pc = "firelens" =>
                      /\ Len(task) = Len(pre) + 1
                      /\ task[Len(task)].containerName = AgentContainerName
                      /\ \A i \in Siblings : task[i].logDriverConfig = pre[i].logDriverConfig
                      /\ Adds(LogRouterName)
               /\ pc = "bind" => Len(task) = Len(pre) + 2 /\ WritesOnly("logDriverConfig")
      ]_vars

C20_Witness ==
    /\ pc = "returned"
    /\ agentEnabled(props) = Some(TRUE)
    /\ fireLensEnabled(props) = Some(TRUE)
    /\ apmPropagates(props)
    /\ statsdPropagates(props)
    /\ Len(pre) = 2
    /\ Len(task) = 4
    /\ task[3].containerName = AgentContainerName
    /\ task[4].containerName = LogRouterName
    /\ task[1].environment["DD_AGENT_HOST"] = "localhost"
    /\ task[1].environment["STATSD_HOST"] = "localhost"
    /\ task[1].logDriverConfig[1].logDriver = "awsfirelens"

\* the call has ended in the error of adding a second container of that name
ThrownOn(name) ==
    /\ pc = "thrown"
    /\ error = Some([kind |-> "DuplicateContainerName", name |-> name])

\* C21: there is no rollback: when adding the log_router fails in a call with
\* agent.enabled true, the call ends in that error and the task keeps the
\* datadog-agent container the call added and every APM and StatsD variable
\* the call wrote to the siblings, while no sibling's log configuration has
\* changed and no log_router has been added.
C21_NoRollbackOnRouterFailure ==
    (/\ ThrownOn("log_router")
     /\ props.agent /= None
     /\ props.agent[1].enabled = Some(TRUE))
        => /\ Len(task) = Len(pre) + 1
           /\ task[Len(task)] = agentContainer(props)
           /\ \A i \in Siblings :
                  /\ task[i].environment = PropagatedEnvironment(pre[i], props)
                  /\ [task[i] EXCEPT !.environment = pre[i].environment] = pre[i]

C21_Witness ==
    /\ ThrownOn("log_router")
    /\ agentEnabled(props) = Some(TRUE)
    /\ apmPropagates(props)
    /\ Len(pre) = 2
    /\ Len(task) = 3
    /\ pre[1].containerName = "app"
    /\ pre[2].containerName = "log_router"
    /\ task[3].containerName = "datadog-agent"
    /\ pre[1].environment["DD_AGENT_HOST"] = "10.0.0.1"
    /\ task[1].environment["DD_AGENT_HOST"] = "localhost"
    /\ "DD_TRACE_ENABLED" \in DOMAIN task[2].environment
    /\ task[1].logDriverConfig = pre[1].logDriverConfig

\* C22: when adding the datadog-agent container fails, the call stops at once:
\* no sibling has received an APM or StatsD variable, no log_router has been
\* added and no log configuration has changed; the task is as it was before
\* the call.
C22_AgentFailureLeavesTask ==
    ThrownOn("datadog-agent") => task = pre

C22_Witness ==
    /\ ThrownOn("datadog-agent")
    /\ apmPropagates(props)
    /\ statsdPropagates(props)
    /\ fireLensEnabled(props) = Some(TRUE)
    /\ Len(pre) = 2
    /\ pre[1].containerName = "app"
    /\ pre[2].containerName = "datadog-agent"
    /\ task = pre
    /\ task[1].environment["DD_AGENT_HOST"] = "10.0.0.1"
    /\ task[1].logDriverConfig = Some(awsLogs("app"))

\* C23: the two suppression flags are independent.  With APM and StatsD both
\* enabled, apm.applicationEnvVars.doNotSet = true leaves the three APM
\* variables of every sibling as they were while the StatsD host and port
\* variables are written, and statsd.applicationEnvVars.doNotSet = true leaves
\* the StatsD variables as they were while the APM variables are written.
C23_SuppressionFlagsIndependent ==
    (/\ PropagationOver
     /\ apmEnabled(props) = Some(TRUE)
     /\ statsdEnabled(props) = Some(TRUE))
        => LET at == Coalesce(apmTraceEnabledEnvVarName(props), "DD_TRACE_ENABLED")
               ah == Coalesce(apmHostEnvVarName(props), "DD_AGENT_HOST")
               ap == Coalesce(apmPortEnvVarName(props), "DD_TRACE_AGENT_PORT")
               sh == Coalesce(statsdHostEnvVarName(props), "STATSD_HOST")
               sp == Coalesce(statsdPortEnvVarName(props), "STATSD_PORT")
           IN  /\ (apmDoNotSet(props) = Some(TRUE) /\ statsdDoNotSet(props) /= Some(TRUE))
                      => \A i \in Siblings :
                             /\ {sh, sp} \subseteq DOMAIN task[i].environment
                             /\ task[i].environment[sp] = PortText(statsdPort(props), "8125")
                             /\ sh /= sp => task[i].environment[sh] = "localhost"
                             /\ \A k \in {at, ah, ap} \ {sh, sp} : SameVariable(i, k)
               /\ (statsdDoNotSet(props) = Some(TRUE) /\ apmDoNotSet(props) /= Some(TRUE))
                      => \A i \in Siblings :
                             /\ {at, ah, ap} \subseteq DOMAIN task[i].environment
                             /\ task[i].environment[ap] = PortText(apmPort(props), "8126")
                             /\ ah /= ap => task[i].environment[ah] = "localhost"
                             /\ at \notin {ah, ap} => task[i].environment[at] = "true"
                             /\ \A k \in {sh, sp} \ {at, ah, ap} : SameVariable(i, k)

C23_Witness ==
    /\ pc = "returned"
    /\ AgentAdded
    /\ apmEnabled(props) = Some(TRUE)
    /\ statsdEnabled(props) = Some(TRUE)
    /\ apmDoNotSet(props) = Some(TRUE)
    /\ statsdDoNotSet(props) = None
    /\ Len(pre) = 2
    /\ pre[1].containerName = "app"
    /\ pre[2].containerName = "web"
    /\ task[1].environment["DD_AGENT_HOST"] = "10.0.0.1"
    /\ task[1].environment["STATSD_PORT"] = "8125"
    /\ task[2].environment["STATSD_HOST"] = "localhost"
    /\ "DD_AGENT_HOST" \notin DOMAIN task[2].environment

\* C24: the APM and StatsD variables are written only when agent.enabled is
\* true: when agent is absent or agent.enabled is false or unset, no sibling
\* receives any variable, even with agent.apm.enabled or agent.statsd.enabled
\* true and doNotSet unset, and no datadog-agent container is added.
C24_PropagationNeedsAgent ==
    (/\ InCall
     /\ (props.agent = None \/ props.agent[1].enabled \in {None, Some(FALSE)}))
        => /\ \A i \in Siblings : task[i].environment = pre[i].environment
           /\ \A i \in DOMAIN task : i > Len(pre) => task[i].containerName /= "datadog-agent"

C24_Witness ==
    /\ pc = "returned"
    /\ props.agent /= None
    /\ props.agent[1].enabled = Some(FALSE)
    /\ apmEnabled(props) = Some(TRUE)
    /\ apmDoNotSet(props) = None
    /\ statsdEnabled(props) = Some(TRUE)
    /\ statsdDoNotSet(props) = None
    /\ fireLensEnabled(props) = Some(TRUE)
    /\ Len(pre) = 2
    /\ Len(task) = 3
    /\ pre[2].containerName = "web"
    /\ task[2].environment = pre[2].environment
    /\ task[1].environment["DD_AGENT_HOST"] = "10.0.0.1"
    /\ task[1].logDriverConfig[1].logDriver = "awsfirelens"

\* the first call on the task has returned and the second has just returned
SecondCallReturned ==
    /\ Len(history) = 1
    /\ history[1].error = None
    /\ pc = "returned"

\* C25: across successive calls on one task, the containers an earlier call
\* added are in the later call's snapshot and are treated as siblings: after
\* a firelens-only call followed by an agent call with APM, the log_router
\* container carries the APM variables; after an agent-only call followed by
\* a firelens-only call, the datadog-agent container's log configuration is
\* the firelens log driver.
C25_EarlierAdditionsAreSiblings ==
    SecondCallReturned =>
        LET first == history[1].props
            firelensOnly(p) ==
                /\ p.agent = None
                /\ p.fireLensLogging /= None /\ p.fireLensLogging[1].enabled = Some(TRUE)
            agentOnly(p) ==
                /\ p.fireLensLogging = None
                /\ p.agent /= None /\ p.agent[1].enabled = Some(TRUE)
        IN  /\ (firelensOnly(first) /\ agentOnly(props) /\ apmEnabled(props) = Some(TRUE))
                   => \E i \in Siblings :
                          /\ task[i].containerName = "log_router"
                          /\ {"DD_TRACE_ENABLED", "DD_AGENT_HOST", "DD_TRACE_AGENT_PORT"}
                                 \subseteq DOMAIN task[i].environment
                          /\ task[i].environment["DD_TRACE_ENABLED"] = "true"
                          /\ task[i].environment["DD_AGENT_HOST"] = "localhost"
                          /\ task[i].environment["DD_TRACE_AGENT_PORT"] = "8126"
            /\ (agentOnly(first) /\ firelensOnly(props))
                   => \E i \in Siblings :
                          /\ task[i].containerName = "datadog-agent"
                          /\ task[i].logDriverConfig = Some(firelensLogDriver(props))

C25_Witness ==
    /\ SecondCallReturned
    /\ history[1].props.agent = None
    /\ fireLensEnabled(history[1].props) = Some(TRUE)
    /\ props.fireLensLogging = None
    /\ apmEnabled(props) = Some(TRUE)
    /\ Len(pre) = 3
    /\ Len(task) = 4
    /\ task[3].containerName = "log_router"
    /\ task[3].environment["DD_AGENT_HOST"] = "localhost"
    /\ task[4].containerName = "datadog-agent"

\* the names the call writes to each sibling
WrittenNames == {WrittenName(k) : k \in DOMAIN FieldWrites}

\* the last write of the call that goes to name
LastWrite(name) ==
    CHOOSE k \in DOMAIN FieldWrites :
        /\ WrittenName(k) = name
        /\ \A j \in DOMAIN FieldWrites : WrittenName(j) = name => j <= k

\* C26: when variable names coincide, with each other or with the name of
\* another field, a later write overwrites an earlier one in the order
\* trace-enabled, APM host, APM port, StatsD host, StatsD port: every sibling
\* ends with one entry for each distinct name written, holding the value of
\* the last write to that name, and its other variables as they were.  With
\* apmHostEnvVarName = apmPortEnvVarName that variable is the port string.
C26_LastWriteWins ==
    PropagationOver =>
        \A i \in Siblings :
            LET env == task[i].environment
                was == pre[i].environment
            IN  /\ DOMAIN env = DOMAIN was \cup WrittenNames
                /\ \A n \in WrittenNames : env[n] = FieldWrites[LastWrite(n)].value
                /\ \A n \in DOMAIN was \ WrittenNames : env[n] = was[n]
                /\ (/\ apmEnabled(props) = Some(TRUE)
                    /\ apmDoNotSet(props) /= Some(TRUE)
                    /\ apmHostEnvVarName(props) /= None
                    /\ apmHostEnvVarName(props) = apmPortEnvVarName(props)
                    /\ apmHostEnvVarName(props)[1] \notin StatsdNames)
                       => env[apmHostEnvVarName(props)[1]] = PortText(apmPort(props), "8126")

C26_Witness ==
    /\ pc = "returned"
    /\ AgentAdded
    /\ apmHostEnvVarName(props) = Some("SHARED")
    /\ apmPortEnvVarName(props) = Some("SHARED")
    /\ apmTraceEnabledEnvVarName(props) = Some("DD_AGENT_HOST")
    /\ statsdHostEnvVarName(props) = Some("DD_AGENT_HOST")
    /\ statsdPortEnvVarName(props) = None
    /\ Len(pre) = 2
    /\ task[1].environment["SHARED"] = "8126"
    /\ pre[1].environment["DD_AGENT_HOST"] = "10.0.0.1"
    /\ task[1].environment["DD_AGENT_HOST"] = "localhost"
    /\ task[1].environment["STATSD_PORT"] = "8125"
    /\ DOMAIN task[2].environment = {"SHARED", "DD_AGENT_HOST", "STATSD_PORT"}

\* C27: the tag variables follow the presence of the mapping, not its size:
\* DD_TAGS is in the agent's environment exactly when agent.tags is supplied,
\* and dd_tags is among the log-driver options exactly when
\* fireLensLogging.tags is supplied; for a supplied mapping with no entries
\* the value is the empty string.
C27_EmptyTagsStillSet ==
    /\ AgentAdded =>
           /\ ("DD_TAGS" \in DOMAIN AddedAgent.environment) <=> (props.agent[1].tags /= None)
           /\ props.agent[1].tags = Some(<<>>) => AddedAgent.environment["DD_TAGS"] = ""
    /\ DriverBound =>
           \A i \in Siblings :
               LET options == task[i].logDriverConfig[1].options
               IN  /\ ("dd_tags" \in DOMAIN options) <=> (props.fireLensLogging[1].tags /= None)
                   /\ props.fireLensLogging[1].tags = Some(<<>>) => options["dd_tags"] = ""

C27_Witness ==
    /\ AgentAdded
    /\ DriverBound
    /\ props.agent[1].tags = Some(<<>>)
    /\ props.fireLensLogging[1].tags = Some(<<>>)
    /\ Len(pre) = 2
    /\ AddedAgent.environment["DD_TAGS"] = ""
    /\ task[1].logDriverConfig[1].options["dd_tags"] = ""
    /\ task[2].logDriverConfig[1].options["dd_tags"] = ""

\* C28: the call changes nothing on a container that was in the task before
\* it but the variables it writes (at most the three APM names and the two
\* StatsD names) and the log configuration: every other variable keeps its
\* value, no variable is removed, the name, image, memory, cpu and secrets
\* are as before, and no such container is removed or moved.
C28_SiblingsOtherwiseUntouched ==
    InCall =>
        /\ Len(task) >= Len(pre)
        /\ \A i \in Siblings :
               LET env == task[i].environment
                   was == pre[i].environment
               IN  /\ [task[i] EXCEPT !.environment = was,
                                      !.logDriverConfig = pre[i].logDriverConfig] = pre[i]
                   /\ DOMAIN was \subseteq DOMAIN env
                   /\ DOMAIN env \subseteq DOMAIN was \cup ApmNames \cup StatsdNames
                   /\ \A k \in DOMAIN was \ (ApmNames \cup StatsdNames) : env[k] = was[k]

C28_Witness ==
    /\ pc = "returned"
    /\ AgentAdded
    /\ DriverBound
    /\ apmPropagates(props)
    /\ statsdPropagates(props)
    /\ Len(pre) = 2
    /\ pre[1].containerName = "app"
    /\ task[1].containerName = "app"
    /\ task[1].environment["APP_MODE"] = "prod"
    /\ task[1].environment["DD_AGENT_HOST"] = "localhost"
    /\ task[1].environment["STATSD_PORT"] = "8125"
    /\ task[1].secrets = pre[1].secrets
    /\ task[1].cpu = pre[1].cpu
    /\ task[1].logDriverConfig /= pre[1].logDriverConfig

\* the constructor of DatadogEcsDaemonService has ended
DaemonBuilt ==
    /\ construct.class = "DatadogEcsDaemonService"
    /\ construct.pc = "done"

\* C29: for every props of DatadogEcsDaemonService the agent's mount points
\* and the task definition's volumes correspond one to one: each mount
\* point's sourceVolume names one declared volume and each declared volume is
\* mounted once; they are docker_sock, cgroup and proc always and pointdir
\* and containers_root exactly when logs.enabled is true; pointdir is the
\* only mount that is not read-only.
C29_MountsMatchVolumes ==
    DaemonBuilt =>
        LET mounts == DaemonAgent.mountPoints
            volumes == construct.taskDefinition[1].volumes
            logsOn == construct.props.logs /= None /\ construct.props.logs[1].enabled = Some(TRUE)
            names == {"docker_sock", "cgroup", "proc"} \cup (IF logsOn THEN LogVolumeNames ELSE {})
        IN  /\ {mounts[m].sourceVolume : m \in DOMAIN mounts} = names
            /\ {volumes[v].name : v \in DOMAIN volumes} = names
            /\ \A m \in DOMAIN mounts :
                   Cardinality({v \in DOMAIN volumes : volumes[v].name = mounts[m].sourceVolume}) = 1
            /\ \A v \in DOMAIN volumes :
                   Cardinality({m \in DOMAIN mounts : mounts[m].sourceVolume = volumes[v].name}) = 1
            /\ \A m \in DOMAIN mounts :
                   mounts[m].readOnly <=> mounts[m].sourceVolume /= "pointdir"

C29_Witness ==
    /\ DaemonBuilt
    /\ construct.props.logs /= None
    /\ construct.props.logs[1].enabled = Some(TRUE)
    /\ Len(DaemonAgent.mountPoints) = 5
    /\ Len(construct.taskDefinition[1].volumes) = 5
    /\ DaemonAgent.mountPoints[4].sourceVolume = "pointdir"
    /\ ~DaemonAgent.mountPoints[4].readOnly
    /\ construct.taskDefinition[1].volumes[4].name = "pointdir"
    /\ construct.taskDefinition[1].volumes[4].host.sourcePath = DaemonAgent.mountPoints[4].containerPath

====
